---- MODULE Spec2Model ----
(***************************************************************************)
(* Model of the binary spectral-log ingestion pipeline of                  *)
(* noise_spectrum_preparation.py: the sector-aligned frame reader, the     *)
(* adaptive voice detector, the minute aggregator and the driver.          *)
(*                                                                         *)
(* Number representation.  bandRMS, noiseRMS and the baseline are whole     *)
(* numbers of units of 1e-12, so that EPS (1e-12) is 1 and NOISE_RMS_FLOOR *)
(* (1e-6) is 1000000; NAN and INF stand for the IEEE values nan and +inf.  *)
(* snr_lin and sfm are in hundredths.  rise_db is kept in whole decibels   *)
(* (floor) and saturates at 12 dB, the point where rise_norm saturates.    *)
(* voice_score is in units of 1/12000.  Quotients that the code leaves to  *)
(* floating point (means, rates, seconds) are kept as fractions            *)
(* [num, den]; 0/0 stands for nan and 1/0 for +inf.                        *)
(***************************************************************************)
EXTENDS Integers, Sequences, FiniteSets, TLC

(* ------------------------------ constants ------------------------------ *)
EPS == 1
NOISE_RMS_FLOOR == 1000000
SNR_MIN_LINEAR == 160
SFM_MAX_FOR_VOICE == 55
RISE_DB_OVER_BASE == 3
BASELINE_ALPHA_DEN == 20
CONFIRM_FRAMES == 2
MEDIAN_HEAD == 20
MEDIAN_MIN_FRAMES == 5

SECTOR == 512
HDR_SIZE == 32
MaxBins == 65535

NAN == -1
INF == 999999999

(* ------------------------------- bounds -------------------------------- *)
MaxDetFrames == 4
MaxSectors == 4
MaxDirs == 2
MaxWorkerFrames == 3
MaxDrvFrames == 3
MaxProcs == 2
MaxByte == 1
MaxPairs == 2

(* ------------------------------ variables ------------------------------ *)
VARIABLES
  dpc,        \* detector: "idle" | "start" | "loop" | "done" | "raised"
  g,          \* detector: the frames handed to stateful_detect_one_kit
  baseline,   \* detector: adaptive baseline
  confirm,    \* detector: run length of consecutive candidates
  voice,      \* detector: voice[i] of the frames processed so far
  inten,      \* detector: voiceIntensityDB of the frames processed so far
  score,      \* detector: voice_score of the frames processed so far
  cands,      \* history: the cand flag of the frames processed so far
  bases       \* history: the baseline before the loop and after each frame

detVars == <<dpc, g, baseline, confirm, voice, inten, score, cands, bases>>

VARIABLES
  rpc,           \* reader: "idle" | "dir" | "file" | "frame" | "done" | "raised"
  input_dirs,    \* reader: the directories, each with its status and its files
  start_ep,      \* the window [start_ep, end_ep)
  end_ep,
  di,            \* reader: index of the directory of the outer loop
  logs,          \* reader: the sorted log files of that directory
  fi,            \* reader: index in logs of the file of the inner loop
  offset,        \* reader: byte offset of the cursor in the open file
  rows,          \* reader: the summaries appended so far
  next_frame_id, \* reader: the next frame_id
  iters          \* history: iterations of the line-86 loop in the open file

rdVars ==
  <<rpc, input_dirs, start_ep, end_ep, di, logs, fi, offset, rows, next_frame_id, iters>>

VARIABLES
  wpc,   \* worker: "idle" | "start" | "done" | "raised"
  wg,    \* worker: the frames of the source, in file order
  wout   \* worker: the rows per_kit_worker returns

wkVars == <<wpc, wg, wout>>

VARIABLES
  mpc,        \* main: "idle" | "read" | "tasks" | "seq" | "pool" | "concat" | "done" | "raised"
  ff,         \* main: the frame features, one record per retained frame
  tasks,      \* main: the (kit, frames) task of each kit
  parts,      \* main: the tables the tasks returned, in task order
  n_workers,  \* pool: the number of worker processes
  jobs,       \* pool: "pending" | "running" | "done" | "raised" of each task
  results,    \* pool: the table each finished task returned
  out_parq    \* the output file: whether written, its columns, its rows

mainVars == <<mpc, ff, tasks, parts, n_workers, jobs, results, out_parq>>

VARIABLES
  hpc,        \* header: "idle" | "packed" | "unpacked"
  hdr_bytes,  \* header: the 32 bytes read at the cursor
  hdr_fields, \* header: the fields struct.unpack returns
  xpc,        \* extractor: "idle" | "payload" | "summary" | "features"
  payload,    \* extractor: the (frequency, magnitude) pairs of one frame
  summ,       \* extractor: the sums kept of the frame
  feat        \* extractor: the features to_frame_features returns

fnVars == <<hpc, hdr_bytes, hdr_fields, xpc, payload, summ, feat>>

vars == <<detVars, rdVars, wkVars, mainVars, fnVars>>

(* ------------------------------- helpers ------------------------------- *)
Max2(a, b) == IF a >= b THEN a ELSE b
Min2(a, b) == IF a <= b THEN a ELSE b

RECURSIVE SeqsUpTo(_, _)
SeqsUpTo(S, n) ==
  IF n = 0 THEN {<<>>}
  ELSE LET shorter == SeqsUpTo(S, n - 1)
       IN  shorter \cup {Append(s, x) : s \in {t \in shorter : Len(t) = n - 1}, x \in S}

\* Python's max(x, floor) for floats: the first argument is kept unless the
\* second is greater, so a nan first argument comes back as nan.
PyMaxFloor(x, floor) ==
  IF x = NAN THEN NAN
  ELSE IF x = INF THEN INF
  ELSE Max2(x, floor)

(* ------------------------------ detector ------------------------------- *)
\* g.sort_values("ts_unix"): insertion of each frame after the frames whose
\* timestamp is not larger (rows with equal timestamps keep their order).
RECURSIVE InsertByTs(_, _)
InsertByTs(s, f) ==
  IF s = <<>> THEN <<f>>
  ELSE IF s[Len(s)].ts_unix <= f.ts_unix THEN Append(s, f)
  ELSE Append(InsertByTs(SubSeq(s, 1, Len(s) - 1), f), s[Len(s)])

RECURSIVE sort_values(_)
sort_values(s) ==
  IF s = <<>> THEN <<>>
  ELSE InsertByTs(sort_values(SubSeq(s, 1, Len(s) - 1)), s[Len(s)])

RECURSIVE InsertVal(_, _)
InsertVal(s, x) ==
  IF s = <<>> THEN <<x>>
  ELSE IF s[Len(s)] <= x THEN Append(s, x)
  ELSE Append(InsertVal(SubSeq(s, 1, Len(s) - 1), x), s[Len(s)])

RECURSIVE SortVals(_)
SortVals(s) ==
  IF s = <<>> THEN <<>>
  ELSE InsertVal(SortVals(SubSeq(s, 1, Len(s) - 1)), s[Len(s)])

Mean2(a, b) == IF a = INF \/ b = INF THEN INF ELSE (a + b) \div 2

\* Series.median(): nan values are skipped; nan when nothing is left.
median(s) ==
  LET kept == SortVals(SelectSeq(s, LAMBDA x : x # NAN))
      n    == Len(kept)
  IN  IF n = 0 THEN NAN
      ELSE IF n % 2 = 1 THEN kept[(n + 1) \div 2]
      ELSE Mean2(kept[n \div 2], kept[n \div 2 + 1])

head(s, n) == SubSeq(s, 1, Min2(n, Len(s)))

\* mutant: the median is taken from 20 frames on
InitBaseline_From20(sorted) ==
  LET brms == [k \in 1..Len(sorted) |-> sorted[k].bandRMS]
      init == IF Len(sorted) >= MEDIAN_HEAD
              THEN median(head(brms, MEDIAN_HEAD))
              ELSE brms[1]
  IN  PyMaxFloor(init, EPS)

\* lines 202-203, on the sorted frames.
InitBaseline(sorted) ==
  LET brms == [k \in 1..Len(sorted) |-> sorted[k].bandRMS]
      init == IF Len(sorted) >= MEDIAN_MIN_FRAMES
              THEN median(head(brms, MEDIAN_HEAD))
              ELSE brms[1]
  IN  PyMaxFloor(init, EPS)

\* 100 * 10^(k/20) for k = 1..12, rounded up.
Pow10By20 == <<113, 126, 142, 159, 178, 200, 224, 252, 282, 317, 355, 399>>

\* math.log10 raises ValueError on 0.0: a finite bandRMS over an infinite baseline.
LogRaises(b, base) == b # NAN /\ b # INF /\ base = INF

\* max(20*log10((brms+EPS)/(baseline+EPS)), 0.0), in whole decibels up to 12.
rise_db(b, base) ==
  IF b = NAN \/ base = NAN THEN NAN
  ELSE IF b = INF /\ base = INF THEN NAN
  ELSE IF b = INF THEN INF
  ELSE LET ratio == ((b + EPS) * 100) \div (base + EPS)
           ks    == {k \in 1..12 : ratio >= Pow10By20[k]}
       IN  IF ks = {} THEN 0 ELSE CHOOSE k \in ks : \A j \in ks : j <= k

\* np.nan_to_num(x, nan=...)
nan_to_num(x, dflt) == IF x = NAN THEN dflt ELSE x

GeFloat(x, y) == x # NAN /\ x >= y

IsCand(f, base) ==
  /\ nan_to_num(f.snr_lin, 0) >= SNR_MIN_LINEAR
  /\ nan_to_num(f.sfm, 100) <= SFM_MAX_FOR_VOICE
  /\ GeFloat(rise_db(f.bandRMS, base), RISE_DB_OVER_BASE)

\* mutant: a non-candidate frame keeps the count instead of resetting it
NextConfirm_NoReset(c, cand) == IF cand THEN c + 1 ELSE c

\* line 218
NextConfirm(c, cand) == IF cand THEN c + 1 ELSE 0

IsVoice(c) == IF c >= CONFIRM_FRAMES THEN 1 ELSE 0

Clamp(x, lo, hi) == Min2(Max2(x, lo), hi)

\* W_RISE*rise_norm + W_SNR*snr_norm + W_HARM*harm_norm, in units of 1/12000.
voice_score(f, base) ==
  LET r == rise_db(f.bandRMS, base)
      s == nan_to_num(f.snr_lin, 0)
      h == nan_to_num(f.sfm, 100)
  IN  IF r = NAN THEN NAN
      ELSE 500 * Clamp(r, 0, 12) + 9 * Clamp(s - 100, 0, 400) + 24 * Clamp(100 - h, 0, 100)

Ema(base, m) ==
  IF base = NAN \/ m = NAN THEN NAN
  ELSE IF base = INF \/ m = INF THEN INF
  ELSE ((BASELINE_ALPHA_DEN - 1) * base + m) \div BASELINE_ALPHA_DEN

\* mutant: the baseline follows every frame, voice or not
NextBaseline_Always(base, v, b) == Ema(base, PyMaxFloor(b, EPS))

\* line 228-229
NextBaseline(base, v, b) ==
  IF v = 0 THEN Ema(base, PyMaxFloor(b, EPS)) ELSE base

\* mutant: a candidate frame leaves the baseline alone
DetectFrame_FreezeOnCand(st, f) ==
  LET cand == IsCand(f, st.baseline)
      c    == NextConfirm(st.confirm, cand)
      v    == IsVoice(c)
  IN  [baseline |-> IF cand THEN st.baseline
                    ELSE NextBaseline(st.baseline, v, f.bandRMS),
       confirm  |-> c,
       cand     |-> cand,
       voice    |-> v,
       inten    |-> IF v = 1 THEN rise_db(f.bandRMS, st.baseline) ELSE 0,
       score    |-> voice_score(f, st.baseline)]

\* One pass of the loop body, lines 216-229, on frame f.
DetectFrame(st, f) ==
  LET cand == IsCand(f, st.baseline)
      c    == NextConfirm(st.confirm, cand)
      v    == IsVoice(c)
  IN  [baseline |-> NextBaseline(st.baseline, v, f.bandRMS),
       confirm  |-> c,
       cand     |-> cand,
       voice    |-> v,
       inten    |-> IF v = 1 THEN rise_db(f.bandRMS, st.baseline) ELSE 0,
       score    |-> voice_score(f, st.baseline)]

(* ---------------------- detector, frame by frame ----------------------- *)
\* The frame features the extractor can hand to the detector.
\* snr_lin = (bandRMS / noiseRMS)^2 with noiseRMS >= NOISE_RMS_FLOOR; a frame
\* with an infinite in-band magnitude has bandRMS = inf and nan elsewhere.
QuietNoise == [bandRMS |-> 1000000, noiseRMS |-> 1000000, snr_lin |-> 100, sfm |-> 90]
QuietTone  == [bandRMS |-> 2000000, noiseRMS |-> 1000000, snr_lin |-> 400, sfm |-> 30]
LoudNoise  == [bandRMS |-> 8000000, noiseRMS |-> 8000000, snr_lin |-> 100, sfm |-> 90]
LoudTone   == [bandRMS |-> 8000000, noiseRMS |-> 2000000, snr_lin |-> 1600, sfm |-> 30]
LoudFlat   == [bandRMS |-> 8000000, noiseRMS |-> 2000000, snr_lin |-> 1600, sfm |-> 90]
Overflow   == [bandRMS |-> INF, noiseRMS |-> NAN, snr_lin |-> NAN, sfm |-> NAN]

\* no energy in the band: bandRMS = 0, snr_lin = 0, sfm = EPS / (0 + EPS) = 1
Silent     == [bandRMS |-> 0, noiseRMS |-> 1000000, snr_lin |-> 0, sfm |-> 100]
\* a nan magnitude in the band: every sum, and so every feature, is nan
NanFrame   == [bandRMS |-> NAN, noiseRMS |-> NAN, snr_lin |-> NAN, sfm |-> NAN]

DetFeatures ==
  {QuietNoise, QuietTone, LoudNoise, LoudTone, LoudFlat, Overflow, NanFrame}

Frame(t, x) ==
  [ts_unix |-> t, bandRMS |-> x.bandRMS, noiseRMS |-> x.noiseRMS,
   snr_lin |-> x.snr_lin, sfm |-> x.sfm]

\* Timestamps of the frames in file order: increasing, decreasing or all equal.
TsPatterns == {"asc", "desc", "same"}

StampTs(p, k, n) ==
  IF p = "asc" THEN 2 * k ELSE IF p = "desc" THEN 2 * (n - k) ELSE 0

\* sources of one or two frames and sources around the two lengths line 202
\* depends on: c frames of one kind, then frames of another kind
StepLens ==
  {1, 2, MEDIAN_MIN_FRAMES, MEDIAN_MIN_FRAMES + 1,
   MEDIAN_HEAD - 1, MEDIAN_HEAD, MEDIAN_HEAD + 2}

StepKinds ==
  {<<LoudNoise, QuietNoise>>, <<QuietNoise, LoudNoise>>, <<NanFrame, LoudNoise>>,
   <<Silent, NanFrame>>, <<LoudNoise, Silent>>}

StepStreams ==
  { [k \in 1..n |-> Frame(StampTs(p, k, n), IF k <= c THEN kd[1] ELSE kd[2])] :
    n \in StepLens, c \in 0..(MEDIAN_HEAD + 2), kd \in StepKinds, p \in TsPatterns }

DetInputs ==
  { [k \in 1..Len(s) |-> Frame(StampTs(p, k, Len(s)), s[k])] :
    s \in SeqsUpTo(DetFeatures, MaxDetFrames) \ {<<>>}, p \in TsPatterns }
    \cup StepStreams

NoFile == [written |-> FALSE, columns |-> {}, rows |-> <<>>]

MainIdle ==
  /\ mpc = "idle"
  /\ ff = <<>>
  /\ tasks = <<>>
  /\ parts = <<>>
  /\ n_workers = 0
  /\ jobs = <<>>
  /\ results = <<>>
  /\ out_parq = NoFile

WkIdle ==
  /\ wpc = "idle"
  /\ wg = <<>>
  /\ wout = <<>>

RdRest ==
  /\ rpc = "idle"
  /\ input_dirs = <<>>
  /\ di = 0
  /\ logs = <<>>
  /\ fi = 0
  /\ offset = 0
  /\ rows = <<>>
  /\ next_frame_id = 0
  /\ iters = 0

FnIdle ==
  /\ hpc = "idle"
  /\ hdr_bytes = <<>>
  /\ hdr_fields = <<>>
  /\ xpc = "idle"
  /\ payload = <<>>
  /\ summ = <<>>
  /\ feat = <<>>

RdIdle ==
  /\ RdRest
  /\ start_ep = 0
  /\ end_ep = 0

DetInit ==
  /\ FnIdle
  /\ RdIdle
  /\ WkIdle
  /\ MainIdle
  /\ dpc = "start"
  /\ g \in DetInputs
  /\ baseline = 0
  /\ confirm = 0
  /\ voice = <<>>
  /\ inten = <<>>
  /\ score = <<>>
  /\ cands = <<>>
  /\ bases = <<>>

\* lines 195-214
DetStart ==
  /\ dpc = "start"
  /\ g' = sort_values(g)
  /\ baseline' = InitBaseline(g')
  /\ confirm' = 0
  /\ bases' = <<baseline'>>
  /\ dpc' = "loop"
  /\ UNCHANGED <<voice, inten, score, cands>>
  /\ UNCHANGED <<rdVars, wkVars, mainVars, fnVars>>

\* one iteration of the loop of lines 215-229
DetStep ==
  /\ dpc = "loop"
  /\ Len(voice) < Len(g)
  /\ LET f == g[Len(voice) + 1]
     IN  /\ ~LogRaises(f.bandRMS, baseline)
         /\ LET r == DetectFrame([baseline |-> baseline, confirm |-> confirm], f)
            IN  /\ baseline' = r.baseline
                /\ confirm' = r.confirm
                /\ voice' = Append(voice, r.voice)
                /\ inten' = Append(inten, r.inten)
                /\ score' = Append(score, r.score)
                /\ cands' = Append(cands, r.cand)
                /\ bases' = Append(bases, r.baseline)
  /\ UNCHANGED <<dpc, g>>
  /\ UNCHANGED <<rdVars, wkVars, mainVars, fnVars>>

\* math.log10(0.0) at line 216: ValueError leaves the function
DetRaise ==
  /\ dpc = "loop"
  /\ Len(voice) < Len(g)
  /\ LogRaises(g[Len(voice) + 1].bandRMS, baseline)
  /\ dpc' = "raised"
  /\ UNCHANGED <<g, baseline, confirm, voice, inten, score, cands, bases>>
  /\ UNCHANGED <<rdVars, wkVars, mainVars, fnVars>>

\* lines 231-235
DetFinish ==
  /\ dpc = "loop"
  /\ Len(voice) = Len(g)
  /\ dpc' = "done"
  /\ UNCHANGED <<g, baseline, confirm, voice, inten, score, cands, bases>>
  /\ UNCHANGED <<rdVars, wkVars, mainVars, fnVars>>

DetNext == DetStart \/ DetStep \/ DetRaise \/ DetFinish

SpecDetect == DetInit /\ [][DetNext]_vars

(* ------------------------------- reader -------------------------------- *)
\* A log file is a sequence of 512-byte sectors whose last one may be cut
\* short (cut bytes missing).  Of a sector the model keeps what the reader
\* decodes when it takes the sector's first 32 bytes for a header: whether
\* the magic is b"FFT2", the timestamp and the bin count.  A payload is
\* identified by the byte range it is read from.
DetIdle ==
  /\ dpc = "idle"
  /\ g = <<>>
  /\ baseline = 0
  /\ confirm = 0
  /\ voice = <<>>
  /\ inten = <<>>
  /\ score = <<>>
  /\ cands = <<>>
  /\ bases = <<>>

\* line 45-46
\* mutant: the size is not rounded up
aligned_up_NoRound(n, a) == n

aligned_up(n, a) == ((n + a - 1) \div a) * a

FileSize(f) == SECTOR * Len(f.secs) - f.cut

RECURSIVE InsertByIdx(_, _)
InsertByIdx(s, f) ==
  IF s = <<>> THEN <<f>>
  ELSE IF s[Len(s)].idx <= f.idx THEN Append(s, f)
  ELSE Append(InsertByIdx(SubSeq(s, 1, Len(s) - 1), f), s[Len(s)])

RECURSIVE SortByIdx(_)
SortByIdx(s) ==
  IF s = <<>> THEN <<>>
  ELSE InsertByIdx(SortByIdx(SubSeq(s, 1, Len(s) - 1)), s[Len(s)])

\* lines 55-67: os.listdir raises on a directory it cannot list; only
\* FileNotFoundError is caught.
ListRaises(d) == d.status \notin {"ok", "missing"}

\* mutant: the files are taken in listing order
find_log_files_Unsorted(d) ==
  IF d.status = "missing" THEN <<>>
  ELSE SelectSeq(d.files, LAMBDA f : f.matches)

find_log_files(d) ==
  IF d.status = "missing" THEN <<>>
  ELSE SortByIdx(SelectSeq(d.files, LAMBDA f : f.matches))

\* the header unpacked at the cursor, line 87-91
HeaderAt(f, off) == f.secs[off \div SECTOR + 1]

\* len(f.read(data_bytes)) after the header, line 98
PayloadRead(f, off, data_bytes) == Min2(data_bytes, FileSize(f) - (off + HDR_SIZE))

\* mutant: the window is closed at its end
InWindow_Closed(ts) == ~(ts < start_ep \/ ts > end_ep)

\* line 103
InWindow(ts) == ~(ts < start_ep \/ ts >= end_ep)

\* mutant: the payload is decoded as 8-byte values
DecodedSize_Double(nbytes) == nbytes \div 8

\* np.frombuffer(payload, dtype="<f4").size, line 109
DecodedSize(nbytes) == nbytes \div 4

CurFile == logs[fi]

\* line 74, 80: next file of the directory, else next directory
LeaveFile ==
  IF fi < Len(logs)
  THEN /\ fi' = fi + 1
       /\ rpc' = "file"
       /\ UNCHANGED <<di, logs>>
  ELSE /\ di' = di + 1
       /\ rpc' = "dir"
       /\ fi' = 0
       /\ logs' = <<>>

\* lines 74-78, a listing with log files
RdListDir ==
  /\ rpc = "dir"
  /\ di <= Len(input_dirs)
  /\ ~ListRaises(input_dirs[di])
  /\ find_log_files(input_dirs[di]) # <<>>
  /\ logs' = find_log_files(input_dirs[di])
  /\ fi' = 1
  /\ rpc' = "file"
  /\ UNCHANGED <<input_dirs, start_ep, end_ep, di, offset, rows, next_frame_id, iters>>
  /\ UNCHANGED <<detVars, wkVars, mainVars, fnVars>>

\* lines 76-78: no log file (or no such directory): warn and go on
RdNoLogs ==
  /\ rpc = "dir"
  /\ di <= Len(input_dirs)
  /\ ~ListRaises(input_dirs[di])
  /\ find_log_files(input_dirs[di]) = <<>>
  /\ di' = di + 1
  /\ UNCHANGED <<rpc, input_dirs, start_ep, end_ep, logs, fi, offset, rows, next_frame_id, iters>>
  /\ UNCHANGED <<detVars, wkVars, mainVars, fnVars>>

\* line 59: os.listdir raises PermissionError / NotADirectoryError
RdListRaise ==
  /\ rpc = "dir"
  /\ di <= Len(input_dirs)
  /\ ListRaises(input_dirs[di])
  /\ rpc' = "raised"
  /\ UNCHANGED <<input_dirs, start_ep, end_ep, di, logs, fi, offset, rows, next_frame_id, iters>>
  /\ UNCHANGED <<detVars, wkVars, mainVars, fnVars>>

\* mutant: the frame ids start again at 0 in every file
RdOpen_ResetId ==
  /\ rpc = "file"
  /\ CurFile.status = "ok"
  /\ offset' = 0
  /\ next_frame_id' = 0
  /\ rpc' = "frame"
  /\ iters' = 0
  /\ UNCHANGED <<input_dirs, start_ep, end_ep, di, logs, fi, rows>>
  /\ UNCHANGED <<detVars, wkVars, mainVars, fnVars>>

\* lines 81-85
RdOpen ==
  /\ rpc = "file"
  /\ CurFile.status = "ok"
  /\ offset' = 0
  /\ rpc' = "frame"
  /\ iters' = 0
  /\ UNCHANGED <<input_dirs, start_ep, end_ep, di, logs, fi, rows, next_frame_id>>
  /\ UNCHANGED <<detVars, wkVars, mainVars, fnVars>>

\* lines 81, 84: os.path.getsize / open raise OSError
RdOpenRaise ==
  /\ rpc = "file"
  /\ CurFile.status # "ok"
  /\ rpc' = "raised"
  /\ UNCHANGED <<input_dirs, start_ep, end_ep, di, logs, fi, offset, rows, next_frame_id, iters>>
  /\ UNCHANGED <<detVars, wkVars, mainVars, fnVars>>

\* line 86: the loop condition fails
RdEof ==
  /\ rpc = "frame"
  /\ ~(offset + HDR_SIZE <= FileSize(CurFile))
  /\ LeaveFile
  /\ UNCHANGED <<input_dirs, start_ep, end_ep, offset, rows, next_frame_id, iters>>
  /\ UNCHANGED <<detVars, wkVars, mainVars, fnVars>>

\* mutant: a bad magic skips the frame size its header declares
RdBadMagic_FullFrame ==
  /\ rpc = "frame"
  /\ offset + HDR_SIZE <= FileSize(CurFile)
  /\ ~HeaderAt(CurFile, offset).magic
  /\ offset' = offset + aligned_up(HDR_SIZE + HeaderAt(CurFile, offset).bins * 8, SECTOR)
  /\ iters' = iters + 1
  /\ UNCHANGED <<rpc, input_dirs, start_ep, end_ep, di, logs, fi, rows, next_frame_id>>
  /\ UNCHANGED <<detVars, wkVars, mainVars, fnVars>>

\* mutant: a bad magic skips the header only
RdBadMagic_HeaderOnly ==
  /\ rpc = "frame"
  /\ offset + HDR_SIZE <= FileSize(CurFile)
  /\ ~HeaderAt(CurFile, offset).magic
  /\ offset' = offset + HDR_SIZE
  /\ iters' = iters + 1
  /\ UNCHANGED <<rpc, input_dirs, start_ep, end_ep, di, logs, fi, rows, next_frame_id>>
  /\ UNCHANGED <<detVars, wkVars, mainVars, fnVars>>

\* mutant: a bad magic skips two sectors
RdBadMagic_TwoSectors ==
  /\ rpc = "frame"
  /\ offset + HDR_SIZE <= FileSize(CurFile)
  /\ ~HeaderAt(CurFile, offset).magic
  /\ offset' = offset + 2 * SECTOR
  /\ iters' = iters + 1
  /\ UNCHANGED <<rpc, input_dirs, start_ep, end_ep, di, logs, fi, rows, next_frame_id>>
  /\ UNCHANGED <<detVars, wkVars, mainVars, fnVars>>

\* lines 93-95
RdBadMagic ==
  /\ rpc = "frame"
  /\ offset + HDR_SIZE <= FileSize(CurFile)
  /\ ~HeaderAt(CurFile, offset).magic
  /\ offset' = offset + SECTOR
  /\ iters' = iters + 1
  /\ UNCHANGED <<rpc, input_dirs, start_ep, end_ep, di, logs, fi, rows, next_frame_id>>
  /\ UNCHANGED <<detVars, wkVars, mainVars, fnVars>>

\* mutant: a short payload raises
RdTruncated_Raise ==
  /\ rpc = "frame"
  /\ offset + HDR_SIZE <= FileSize(CurFile)
  /\ LET hdr == HeaderAt(CurFile, offset)
     IN  /\ hdr.magic
         /\ PayloadRead(CurFile, offset, hdr.bins * 8) < hdr.bins * 8
  /\ rpc' = "raised"
  /\ iters' = iters + 1
  /\ UNCHANGED <<input_dirs, start_ep, end_ep, di, logs, fi, offset, rows, next_frame_id>>
  /\ UNCHANGED <<detVars, wkVars, mainVars, fnVars>>

\* lines 97-100: short payload, stop reading the file
RdTruncated ==
  /\ rpc = "frame"
  /\ offset + HDR_SIZE <= FileSize(CurFile)
  /\ LET hdr == HeaderAt(CurFile, offset)
     IN  /\ hdr.magic
         /\ PayloadRead(CurFile, offset, hdr.bins * 8) < hdr.bins * 8
  /\ LeaveFile
  /\ iters' = iters + 1
  /\ UNCHANGED <<input_dirs, start_ep, end_ep, offset, rows, next_frame_id>>
  /\ UNCHANGED <<detVars, wkVars, mainVars, fnVars>>

\* lines 102-106
RdOutOfWindow ==
  /\ rpc = "frame"
  /\ offset + HDR_SIZE <= FileSize(CurFile)
  /\ LET hdr == HeaderAt(CurFile, offset)
     IN  /\ hdr.magic
         /\ ~(PayloadRead(CurFile, offset, hdr.bins * 8) < hdr.bins * 8)
         /\ ~InWindow(hdr.ts)
         /\ offset' = offset + aligned_up(HDR_SIZE + hdr.bins * 8, SECTOR)
  /\ iters' = iters + 1
  /\ UNCHANGED <<rpc, input_dirs, start_ep, end_ep, di, logs, fi, rows, next_frame_id>>
  /\ UNCHANGED <<detVars, wkVars, mainVars, fnVars>>

\* lines 108-141: a frame of the window; it is skipped when the decoded
\* array does not hold 2 * bins values, else its summary is appended
RdInWindow ==
  /\ rpc = "frame"
  /\ offset + HDR_SIZE <= FileSize(CurFile)
  /\ LET hdr     == HeaderAt(CurFile, offset)
         nbytes  == PayloadRead(CurFile, offset, hdr.bins * 8)
     IN  /\ hdr.magic
         /\ ~(nbytes < hdr.bins * 8)
         /\ InWindow(hdr.ts)
         /\ IF DecodedSize(nbytes) # hdr.bins * 2
            THEN UNCHANGED <<rows, next_frame_id>>
            ELSE /\ rows' = Append(rows,
                      [file_name |-> CurFile.idx, dir |-> di,
                       frame_id |-> next_frame_id, ts_unix |-> hdr.ts,
                       bins |-> hdr.bins,
                       pay_from |-> offset + HDR_SIZE, pay_len |-> nbytes])
                 /\ next_frame_id' = next_frame_id + 1
         /\ offset' = offset + aligned_up(HDR_SIZE + hdr.bins * 8, SECTOR)
  /\ iters' = iters + 1
  /\ UNCHANGED <<rpc, input_dirs, start_ep, end_ep, di, logs, fi>>
  /\ UNCHANGED <<detVars, wkVars, mainVars, fnVars>>

\* lines 144-153
RdReturn ==
  /\ rpc = "dir"
  /\ di > Len(input_dirs)
  /\ rpc' = "done"
  /\ UNCHANGED <<input_dirs, start_ep, end_ep, di, logs, fi, offset, rows, next_frame_id, iters>>
  /\ UNCHANGED <<detVars, wkVars, mainVars, fnVars>>

RdNext ==
  \/ RdListDir \/ RdNoLogs \/ RdListRaise \/ RdOpen \/ RdOpenRaise
  \/ RdEof \/ RdBadMagic \/ RdTruncated \/ RdOutOfWindow \/ RdInWindow \/ RdReturn

\* What a sector can decode to as a header, for the window [60, 120).
SectorKinds ==
  [magic : BOOLEAN, ts : {60, 120}, bins : {60, 61}]
    \cup {[magic |-> TRUE, ts |-> 59, bins |-> 60]}

LogFile(i, st, secs, cut) ==
  [idx |-> i, matches |-> TRUE, status |-> st, secs |-> secs, cut |-> cut]

OtherFile == [idx |-> 0, matches |-> FALSE, status |-> "ok", secs |-> <<>>, cut |-> 0]

\* one directory holding one log file of arbitrary sectors
FsFrames ==
  { << [status |-> "ok", files |-> <<LogFile(1, "ok", secs, 0)>>] >> :
      secs \in SeqsUpTo(SectorKinds, MaxSectors) }

OneFrame(t) == <<[magic |-> TRUE, ts |-> t, bins |-> 60]>>

\* a directory listed out of index order: LOG_0002 holds one frame, LOG_0001
\* a frame and then a frame whose payload is cut short by 100 bytes
TailCutDir ==
  [status |-> "ok",
   files |-> <<LogFile(2, "ok", OneFrame(63), 0),
               LogFile(1, "ok", OneFrame(61) \o OneFrame(62), 100)>>]

\* what a directory may be: missing, not listable, or one of a few listings
DirKinds ==
  { [status |-> "missing", files |-> <<>>],
    [status |-> "denied", files |-> <<>>],
    [status |-> "ok", files |-> <<>>],
    [status |-> "ok", files |-> <<OtherFile>>],
    [status |-> "ok", files |-> <<LogFile(1, "ok", OneFrame(61), 0)>>],
    [status |-> "ok", files |-> <<LogFile(2, "ok", OneFrame(62), 0), OtherFile,
                                  LogFile(1, "ok", OneFrame(61), 500)>>],
    [status |-> "ok", files |-> <<LogFile(3, "ok", OneFrame(63), 0),
                                  LogFile(2, "unreadable", <<>>, 0)>>],
    TailCutDir }

FsDirs == SeqsUpTo(DirKinds, MaxDirs)

RdStart(fs) ==
  /\ rpc = "dir"
  /\ input_dirs \in fs
  /\ start_ep = 60
  /\ end_ep = 120
  /\ di = 1
  /\ logs = <<>>
  /\ fi = 0
  /\ offset = 0
  /\ rows = <<>>
  /\ next_frame_id = 0
  /\ iters = 0

RdInit ==
  /\ DetIdle
  /\ FnIdle
  /\ WkIdle
  /\ MainIdle
  /\ RdStart(FsFrames \cup FsDirs)

SpecReader == RdInit /\ [][RdNext]_vars

(* ------------------------- worker (one source) ------------------------- *)
Rat(n, d) == [num |-> n, den |-> d]
RNAN == Rat(0, 0)
RINF == Rat(1, 0)
RZero == Rat(0, 1)
IsNaN(r) == r.den = 0 /\ r.num = 0

\* lines 186-191: mean of the consecutive differences of ts_unix
RECURSIVE SumDiffs(_, _)
SumDiffs(df, k) ==
  IF k >= Len(df) THEN 0
  ELSE (df[k + 1].ts_unix - df[k].ts_unix) + SumDiffs(df, k + 1)

estimate_frame_period_seconds(df) ==
  IF Len(df) < 2 THEN RNAN ELSE Rat(SumDiffs(df, 1), Len(df) - 1)

\* the loop of lines 215-229 from frame k on, and the table of lines 231-235
RECURSIVE DetectLoop(_, _, _)
DetectLoop(sorted, k, st) ==
  IF k > Len(sorted) THEN [raised |-> FALSE, det |-> <<>>]
  ELSE IF LogRaises(sorted[k].bandRMS, st.baseline) THEN [raised |-> TRUE, det |-> <<>>]
  ELSE LET f    == sorted[k]
           r    == DetectFrame(st, f)
           rest == DetectLoop(sorted, k + 1, [baseline |-> r.baseline, confirm |-> r.confirm])
       IN  [raised |-> rest.raised,
            det |-> << [ts_unix |-> f.ts_unix, voice |-> r.voice,
                        voiceIntensityDB |-> r.inten, voice_score |-> r.score,
                        snr_lin |-> f.snr_lin, sfm |-> f.sfm,
                        noiseRMS |-> f.noiseRMS, bandRMS |-> f.bandRMS] >> \o rest.det]

\* lines 194-235
stateful_detect_one_kit(frames) ==
  IF frames = <<>> THEN [raised |-> FALSE, det |-> <<>>]
  ELSE LET sorted == sort_values(frames)
       IN  DetectLoop(sorted, 1, [baseline |-> InitBaseline(sorted), confirm |-> 0])

RECURSIVE SumSeq(_)
SumSeq(s) == IF s = <<>> THEN 0 ELSE s[1] + SumSeq(Tail(s))

\* groupby(...).agg("mean") of a float column: nan values are skipped
MeanOf(vals) ==
  LET kept == SelectSeq(vals, LAMBDA x : x # NAN)
  IN  IF kept = <<>> THEN RNAN
      ELSE IF \E k \in 1..Len(kept) : kept[k] = INF THEN RINF
      ELSE Rat(SumSeq(kept), Len(kept))

MinuteOf(ts) == (ts \div 60) * 60

\* mutant: the coverage is not clamped to the minute
CoverageCols_NoClamp(frames, voice_frames, period) ==
  IF IsNaN(period)
  THEN [coverage_s |-> RNAN, coverage_rate |-> RNAN, voice_seconds |-> RNAN,
        voice_rate_time |-> RZero]
  ELSE LET cov == frames * period.num
           vs  == Min2(voice_frames * period.num, cov)
       IN  [coverage_s |-> Rat(cov, period.den),
            coverage_rate |-> Rat(cov, 60 * period.den),
            voice_seconds |-> Rat(vs, period.den),
            voice_rate_time |-> IF cov > 0 THEN Rat(vs, cov) ELSE RZero]

\* mutant: voice_rate_time is the share of the whole minute
CoverageCols_OverMinute(frames, voice_frames, period) ==
  IF IsNaN(period)
  THEN [coverage_s |-> RNAN, coverage_rate |-> RNAN, voice_seconds |-> RNAN,
        voice_rate_time |-> RZero]
  ELSE LET cov == Min2(frames * period.num, 60 * period.den)
           vs  == Min2(voice_frames * period.num, cov)
       IN  [coverage_s |-> Rat(cov, period.den),
            coverage_rate |-> Rat(cov, 60 * period.den),
            voice_seconds |-> Rat(vs, period.den),
            voice_rate_time |-> IF cov > 0 THEN Rat(vs, 60 * period.den) ELSE RZero]

\* lines 257-265; the seconds are fractions over the denominator of the period
CoverageCols(frames, voice_frames, period) ==
  IF IsNaN(period)
  THEN [coverage_s |-> RNAN, coverage_rate |-> RNAN, voice_seconds |-> RNAN,
        voice_rate_time |-> RZero]
  ELSE LET cov == Min2(frames * period.num, 60 * period.den)
           vs  == Min2(voice_frames * period.num, cov)
       IN  [coverage_s |-> Rat(cov, period.den),
            coverage_rate |-> Rat(cov, 60 * period.den),
            voice_seconds |-> Rat(vs, period.den),
            voice_rate_time |-> IF cov > 0 THEN Rat(vs, cov) ELSE RZero]

\* lines 245-265: the row of one minute that holds frames
AggRow(kit, minute, det, period) ==
  LET grp    == SelectSeq(det, LAMBDA r : MinuteOf(r.ts_unix) = minute)
      col(c) == [k \in 1..Len(grp) |-> grp[k][c]]
      frames == Len(grp)
      vf     == SumSeq(col("voice"))
      cv     == CoverageCols(frames, vf, period)
  IN  [kit_code |-> kit, ts_min_utc |-> minute,
       voice_rate |-> Rat(vf, frames),
       intensity_mean |-> MeanOf(col("voiceIntensityDB")),
       voice_score_mean |-> MeanOf(col("voice_score")),
       snr_mean |-> MeanOf(col("snr_lin")),
       sfm_mean |-> MeanOf(col("sfm")),
       noiseRMS_mean |-> MeanOf(col("noiseRMS")),
       bandRMS_mean |-> MeanOf(col("bandRMS")),
       frames |-> frames, voice_frames |-> vf,
       frame_period_s |-> period,
       coverage_s |-> cv.coverage_s, coverage_rate |-> cv.coverage_rate,
       voice_seconds |-> cv.voice_seconds, voice_rate_time |-> cv.voice_rate_time]

\* the row the left join gives a minute of the grid that has no row in agg
NullRow(kit, minute) ==
  [kit_code |-> kit, ts_min_utc |-> minute,
   voice_rate |-> RNAN, intensity_mean |-> RNAN, voice_score_mean |-> RNAN,
   snr_mean |-> RNAN, sfm_mean |-> RNAN, noiseRMS_mean |-> RNAN,
   bandRMS_mean |-> RNAN, frames |-> NAN, voice_frames |-> NAN,
   frame_period_s |-> RNAN, coverage_s |-> RNAN, coverage_rate |-> RNAN,
   voice_seconds |-> RNAN, voice_rate_time |-> RNAN]

fillna(r) == IF IsNaN(r) THEN RZero ELSE r

\* lines 278-281
FillRow(r) ==
  [r EXCEPT !.frames = nan_to_num(r.frames, 0),
            !.voice_frames = nan_to_num(r.voice_frames, 0),
            !.coverage_s = fillna(r.coverage_s),
            !.coverage_rate = fillna(r.coverage_rate),
            !.voice_seconds = fillna(r.voice_seconds),
            !.voice_rate = fillna(r.voice_rate),
            !.voice_rate_time = fillna(r.voice_rate_time)]

\* mutant: the grid stops at the minute of end_ep, rounded down
GridEnd_Floor(e) == (e \div 60) * 60

\* mutant: the grid starts at the minute of start_ep, rounded up
GridStart_Ceil(s) == ((s + 59) \div 60) * 60

\* line 268-269
GridStart(s) == (s \div 60) * 60
GridEnd(e) == ((e + 59) \div 60) * 60

\* lines 270-272: the minutes t_start, t_start + 60, ... below t_end
MinuteGrid(s, e) ==
  LET n == (GridEnd(e) - GridStart(s)) \div 60
  IN  [k \in 1..Max2(n, 0) |-> GridStart(s) + 60 * (k - 1)]

\* mutant: every column of an unmatched minute is filled with zero
MergeRow_FillAll(kit, minute, det, period) ==
  IF \E k \in 1..Len(det) : MinuteOf(det[k].ts_unix) = minute
  THEN FillRow(AggRow(kit, minute, det, period))
  ELSE [FillRow(NullRow(kit, minute)) EXCEPT
          !.intensity_mean = RZero, !.voice_score_mean = RZero, !.snr_mean = RZero,
          !.sfm_mean = RZero, !.noiseRMS_mean = RZero, !.bandRMS_mean = RZero]

\* lines 276-281: one minute of the grid after the left join and the fills
MergeRow(kit, minute, det, period) ==
  IF \E k \in 1..Len(det) : MinuteOf(det[k].ts_unix) = minute
  THEN FillRow(AggRow(kit, minute, det, period))
  ELSE FillRow(NullRow(kit, minute))

\* lines 237-284
per_kit_worker(kit, frames, s, e) ==
  LET period == estimate_frame_period_seconds(frames)
      d      == stateful_detect_one_kit(frames)
      grid   == MinuteGrid(s, e)
  IN  IF d.raised THEN [raised |-> TRUE, rows |-> <<>>]
      ELSE [raised |-> FALSE,
            rows |-> [k \in 1..Len(grid) |-> MergeRow(kit, grid[k], d.det, period)]]

KIT_CODE == "NOISE102"

WkRun ==
  /\ wpc = "start"
  /\ LET r == per_kit_worker(KIT_CODE, wg, start_ep, end_ep)
     IN  /\ wpc' = IF r.raised THEN "raised" ELSE "done"
         /\ wout' = r.rows
  /\ UNCHANGED <<wg, detVars, rdVars, mainVars, fnVars>>

WkNext == WkRun

\* the windows, and the timestamps the frames of a window may carry
Windows == {<<0, 60>>, <<0, 120>>, <<30, 90>>, <<60, 180>>, <<30, 31>>}
WorkerTs == {30, 59, 60, 119, 120}
WorkerFeatures == {QuietNoise, LoudTone, Overflow}

WorkerFrames(w) ==
  { Frame(t, x) : t \in {u \in WorkerTs : w[1] <= u /\ u < w[2]}, x \in WorkerFeatures }

\* a stream of 41 frames, one every 2 s from ts = 38 to ts = 118: 10 quiet
\* frames, then nLoud loud tonal ones (from ts = 58), then quiet ones again;
\* the minute from ts = 60 holds the last 30 frames
StreamFrame(k, nLoud) ==
  Frame(38 + 2 * k, IF k < 10 \/ k >= 10 + nLoud THEN QuietNoise ELSE LoudTone)
Stream(nLoud) == [k \in 1..41 |-> StreamFrame(k - 1, nLoud)]

WorkerInputs ==
  UNION { { [win |-> w, frames |-> fs] :
              fs \in SeqsUpTo(WorkerFrames(w), MaxWorkerFrames) \ {<<>>} } :
          w \in Windows }
    \cup { [win |-> <<0, 120>>, frames |-> Stream(n)] : n \in {11, 31} }

WkInit ==
  /\ DetIdle
  /\ FnIdle
  /\ RdRest
  /\ MainIdle
  /\ wpc = "start"
  /\ wout = <<>>
  /\ \E inp \in WorkerInputs :
       /\ wg = inp.frames
       /\ start_ep = inp.win[1]
       /\ end_ep = inp.win[2]

SpecWorker == WkInit /\ [][WkNext]_vars

(* -------------------------------- main --------------------------------- *)
PARALLEL == TRUE

\* lines 293-297: the columns of the table written when no frame was read
EmptyCols ==
  {"kit_code", "ts_min_utc", "ts_min_local", "voice_rate", "voice_rate_time",
   "intensity_mean", "voice_score_mean", "snr_mean", "sfm_mean",
   "noiseRMS_mean", "bandRMS_mean", "frames", "voice_frames",
   "frame_period_s", "coverage_s", "coverage_rate", "voice_seconds"}

\* lines 242-283: the columns of the table per_kit_worker returns
WorkerCols ==
  {"ts_min_utc", "kit_code", "voice_rate", "intensity_mean", "voice_score_mean",
   "snr_mean", "sfm_mean", "noiseRMS_mean", "bandRMS_mean", "frames",
   "voice_frames", "frame_period_s", "coverage_s", "coverage_rate",
   "voice_seconds", "voice_rate_time", "ts_min_local"}

\* mutant: without frames, main writes the zero-filled minute grid
EmptyTable_ZeroFilled ==
  [written |-> TRUE, columns |-> EmptyCols,
   rows |-> LET grid == MinuteGrid(start_ep, end_ep)
            IN  [k \in 1..Len(grid) |-> FillRow(NullRow(KIT_CODE, grid[k]))]]

\* line 298: pd.DataFrame(columns=cols).to_parquet(...), a table without rows
EmptyTable == [written |-> TRUE, columns |-> EmptyCols, rows |-> <<>>]

KitFrame(kit, t, x) ==
  [kit_code |-> kit, ts_unix |-> t, bandRMS |-> x.bandRMS,
   noiseRMS |-> x.noiseRMS, sfm |-> x.sfm, snr_lin |-> x.snr_lin]

\* line 307: the columns of ff a task is given
TaskFrame(r) == Frame(r.ts_unix, r)

\* line 304: the kit codes of ff in order of first appearance
RECURSIVE Unique(_, _)
Unique(s, seen) ==
  IF s = <<>> THEN <<>>
  ELSE IF s[1] \in seen THEN Unique(Tail(s), seen)
  ELSE <<s[1]>> \o Unique(Tail(s), seen \cup {s[1]})

\* mutant: every task is handed the frames of all kits
MakeTasks_Shared(table) ==
  LET kits == Unique([k \in 1..Len(table) |-> table[k].kit_code], {})
  IN  [i \in 1..Len(kits) |->
         [kit |-> kits[i],
          g |-> [k \in 1..Len(table) |-> TaskFrame(table[k])]]]

\* lines 304-308
MakeTasks(table) ==
  LET kits == Unique([k \in 1..Len(table) |-> table[k].kit_code], {})
      sel(kit) == SelectSeq(table, LAMBDA r : r.kit_code = kit)
  IN  [i \in 1..Len(kits) |->
         [kit |-> kits[i],
          g |-> [k \in 1..Len(sel(kits[i])) |-> TaskFrame(sel(kits[i])[k])]]]

\* mutant: the tables are concatenated from the last to the first
RECURSIVE Concat_Reversed(_)
Concat_Reversed(ps) ==
  IF ps = <<>> THEN <<>> ELSE Concat_Reversed(Tail(ps)) \o ps[1]

\* pd.concat(parts, ignore_index=True)
RECURSIVE Concat(_)
Concat(ps) == IF ps = <<>> THEN <<>> ELSE ps[1] \o Concat(Tail(ps))

RunTask(t) == per_kit_worker(t.kit, t.g, start_ep, end_ep)

\* line 291: an exception of the reader leaves main
MainReadRaise ==
  /\ mpc = "read"
  /\ rpc = "raised"
  /\ mpc' = "raised"
  /\ UNCHANGED <<ff, tasks, parts, n_workers, jobs, results, out_parq>>
  /\ UNCHANGED <<detVars, rdVars, wkVars, fnVars>>

\* lines 292-300
MainEmpty ==
  /\ mpc = "read"
  /\ rpc = "done"
  /\ rows = <<>>
  /\ out_parq' = EmptyTable
  /\ mpc' = "done"
  /\ UNCHANGED <<ff, tasks, parts, n_workers, jobs, results>>
  /\ UNCHANGED <<detVars, rdVars, wkVars, fnVars>>

\* what to_frame_features can make of a payload
MainFeatures == {QuietNoise, LoudTone, Overflow}

\* line 302: one feature record per summary, stamped with its kit code
\* (line 134) and its timestamp
MainToFeatures ==
  /\ mpc = "read"
  /\ rpc = "done"
  /\ rows # <<>>
  /\ \E xs \in [1..Len(rows) -> MainFeatures] :
       ff' = [k \in 1..Len(rows) |-> KitFrame(KIT_CODE, rows[k].ts_unix, xs[k])]
  /\ mpc' = "tasks"
  /\ UNCHANGED <<tasks, parts, n_workers, jobs, results, out_parq>>
  /\ UNCHANGED <<detVars, rdVars, wkVars, fnVars>>

\* lines 304-313: the tasks, and the choice of the branch
MainTasks ==
  /\ mpc = "tasks"
  /\ tasks' = MakeTasks(ff)
  /\ IF PARALLEL /\ Len(tasks') > 1
     THEN /\ mpc' = "pool"
          /\ jobs' = [i \in 1..Len(tasks') |-> "pending"]
          /\ results' = [i \in 1..Len(tasks') |-> <<>>]
     ELSE /\ mpc' = "seq"
          /\ UNCHANGED <<jobs, results>>
  /\ UNCHANGED <<ff, parts, n_workers, out_parq>>
  /\ UNCHANGED <<detVars, rdVars, wkVars, fnVars>>

\* line 318: the next task of the list comprehension returns
MainSeqTask ==
  /\ mpc = "seq"
  /\ Len(parts) < Len(tasks)
  /\ LET r == RunTask(tasks[Len(parts) + 1])
     IN  /\ ~r.raised
         /\ parts' = Append(parts, r.rows)
  /\ mpc' = IF Len(parts') = Len(tasks) THEN "concat" ELSE "seq"
  /\ UNCHANGED <<ff, tasks, n_workers, jobs, results, out_parq>>
  /\ UNCHANGED <<detVars, rdVars, wkVars, fnVars>>

\* line 318: the next task raises, and nothing catches it
MainSeqRaise ==
  /\ mpc = "seq"
  /\ Len(parts) < Len(tasks)
  /\ RunTask(tasks[Len(parts) + 1]).raised
  /\ mpc' = "raised"
  /\ UNCHANGED <<ff, tasks, parts, n_workers, jobs, results, out_parq>>
  /\ UNCHANGED <<detVars, rdVars, wkVars, fnVars>>

Running == {i \in 1..Len(jobs) : jobs[i] = "running"}
Pending == {i \in 1..Len(jobs) : jobs[i] = "pending"}

\* line 315: a free worker process takes the next task of the queue
PoolTaskBegin ==
  /\ mpc = "pool"
  /\ Pending # {}
  /\ Cardinality(Running) < n_workers
  /\ LET i == CHOOSE j \in Pending : \A k \in Pending : j <= k
     IN  jobs' = [jobs EXCEPT ![i] = "running"]
  /\ UNCHANGED <<mpc, ff, tasks, parts, n_workers, results, out_parq>>
  /\ UNCHANGED <<detVars, rdVars, wkVars, fnVars>>

\* line 315: a running task ends, with its table or with its exception
PoolTaskEnd ==
  /\ mpc = "pool"
  /\ \E i \in Running :
       LET r == RunTask(tasks[i])
       IN  /\ jobs' = [jobs EXCEPT ![i] = IF r.raised THEN "raised" ELSE "done"]
           /\ results' = [results EXCEPT ![i] = r.rows]
  /\ UNCHANGED <<mpc, ff, tasks, parts, n_workers, out_parq>>
  /\ UNCHANGED <<detVars, rdVars, wkVars, fnVars>>

\* line 315: every task returned; pool.map returns the tables in task order
PoolMapReturn ==
  /\ mpc = "pool"
  /\ \A i \in 1..Len(jobs) : jobs[i] = "done"
  /\ parts' = results
  /\ mpc' = "concat"
  /\ UNCHANGED <<ff, tasks, n_workers, jobs, results, out_parq>>
  /\ UNCHANGED <<detVars, rdVars, wkVars, fnVars>>

\* line 315: every task ended and one of them raised; pool.map raises the
\* exception again in main, and nothing catches it
PoolMapRaise ==
  /\ mpc = "pool"
  /\ \A i \in 1..Len(jobs) : jobs[i] \in {"done", "raised"}
  /\ \E i \in 1..Len(jobs) : jobs[i] = "raised"
  /\ mpc' = "raised"
  /\ UNCHANGED <<ff, tasks, parts, n_workers, jobs, results, out_parq>>
  /\ UNCHANGED <<detVars, rdVars, wkVars, fnVars>>

\* lines 316-323
MainWrite ==
  /\ mpc = "concat"
  /\ out_parq' = [written |-> TRUE, columns |-> WorkerCols, rows |-> Concat(parts)]
  /\ mpc' = "done"
  /\ UNCHANGED <<ff, tasks, parts, n_workers, jobs, results>>
  /\ UNCHANGED <<detVars, rdVars, wkVars, fnVars>>

MainNext ==
  \/ RdNext
  \/ MainReadRaise \/ MainEmpty \/ MainToFeatures \/ MainTasks
  \/ MainSeqTask \/ MainSeqRaise \/ MainWrite

\* one log file of the named sectors
FileOf(secs) == <<[status |-> "ok", files |-> <<LogFile(1, "ok", secs, 0)>>]>>

InSec   == [magic |-> TRUE, ts |-> 60, bins |-> 60]
LateSec == [magic |-> TRUE, ts |-> 120, bins |-> 60]
EarlySec == [magic |-> TRUE, ts |-> 59, bins |-> 60]
BadSec  == [magic |-> FALSE, ts |-> 60, bins |-> 60]
LongSec == [magic |-> TRUE, ts |-> 60, bins |-> 61]

\* the inputs of main: the directories of the reader, and single files of
\* which no frame, one frame or two frames are retained
MainFs ==
  FsDirs \cup { FileOf(secs) :
                  secs \in {<<>>, <<BadSec>>, <<LateSec>>, <<EarlySec, LateSec>>,
                            <<BadSec, InSec>>, <<InSec, LateSec, InSec>>,
                            <<InSec, LongSec>>} }

MainInit ==
  /\ DetIdle
  /\ FnIdle
  /\ WkIdle
  /\ RdStart(MainFs)
  /\ mpc = "read"
  /\ ff = <<>>
  /\ tasks = <<>>
  /\ parts = <<>>
  /\ n_workers = 0
  /\ jobs = <<>>
  /\ results = <<>>
  /\ out_parq = NoFile

SpecMain == MainInit /\ [][MainNext]_vars

(* ------------------- driver over several kit codes --------------------- *)
\* Lines 304-323 on a frame table that carries several kit codes.  (The
\* reader stamps every row with the one configured KIT_CODE, so main as
\* configured hands lines 304-323 a table of one kit.)
Kits == {"NOISE101", "NOISE102", "NOISE103"}
DrvFeatures == {QuietNoise, Overflow}

DrvTables ==
  { [k \in 1..Len(ks) |-> KitFrame(ks[k].kit, 60 + k, ks[k].x)] :
      ks \in SeqsUpTo([kit : Kits, x : DrvFeatures], MaxDrvFrames) \ {<<>>} }

DrvInit ==
  /\ DetIdle
  /\ FnIdle
  /\ WkIdle
  /\ RdRest
  /\ start_ep = 60
  /\ end_ep = 180
  /\ mpc = "tasks"
  /\ ff \in DrvTables
  /\ tasks = <<>>
  /\ parts = <<>>
  /\ n_workers \in 1..MaxProcs
  /\ jobs = <<>>
  /\ results = <<>>
  /\ out_parq = NoFile

DrvNext ==
  \/ MainTasks \/ MainSeqTask \/ MainSeqRaise
  \/ PoolTaskBegin \/ PoolTaskEnd \/ PoolMapReturn \/ PoolMapRaise
  \/ MainWrite

SpecDriver == DrvInit /\ [][DrvNext]_vars

(* -------------------------- worker properties -------------------------- *)
REq(a, b) == a.num * b.den = b.num * a.den
RLe(a, b) == a.num * b.den <= b.num * a.den
RMin(a, b) == IF RLe(a, b) THEN a ELSE b
RScale(k, a) == Rat(k * a.num, a.den)
RDiv(a, b) == Rat(a.num * b.den, a.den * b.num)

\* the minutes that the window [start_ep, end_ep) touches
TouchedMinutes == {m \in (start_ep - 59)..(end_ep - 1) : m % 60 = 0}

OneRowPerMinuteOf(S) ==
  /\ Len(wout) = Cardinality(S)
  /\ \A k \in 1..Len(wout) : wout[k].ts_min_utc \in S /\ wout[k].kit_code = KIT_CODE
  /\ \A j, k \in 1..Len(wout) : j < k => wout[j].ts_min_utc < wout[k].ts_min_utc

\* C4 as stated: for a window with end_ep - start_ep = 60 * M the worker
\* returns exactly M rows, one per minute of the window.
C4_Original ==
  (wpc = "done" /\ end_ep > start_ep /\ (end_ep - start_ep) % 60 = 0)
    => Len(wout) = (end_ep - start_ep) \div 60

\* C4 amended: the worker returns exactly one row per minute that the window
\* touches, ceil(end_ep / 60) - floor(start_ep / 60) rows in ascending order,
\* the minutes without frames included; that is M rows when start_ep is a
\* multiple of 60.
C4_OneRowPerTouchedMinute ==
  wpc = "done" =>
    /\ OneRowPerMinuteOf(TouchedMinutes)
    /\ (end_ep > start_ep /\ start_ep % 60 = 0 /\ end_ep % 60 = 0)
         => Len(wout) = (end_ep - start_ep) \div 60

\* C4 witness: the one-minute window [30, 90) gave two rows, one of them for
\* a minute without frames.
C4_Witness ==
  /\ wpc = "done"
  /\ start_ep = 30 /\ end_ep = 90
  /\ Len(wout) = 2
  /\ wout[1].frames > 0
  /\ wout[2].frames = 0

RateCols == {"coverage_s", "coverage_rate", "voice_seconds", "voice_rate", "voice_rate_time"}
MeanCols == {"intensity_mean", "voice_score_mean", "snr_mean", "sfm_mean",
             "noiseRMS_mean", "bandRMS_mean"}

ZeroCountsAndRates(r) ==
  /\ r.frames = 0 /\ r.voice_frames = 0
  /\ \A c \in RateCols : ~IsNaN(r[c]) /\ r[c].num = 0

\* C5 as stated: a row of a minute without frames has zero counts and rates
\* and no null in any MinuteBucket column.
C5_Original ==
  wpc = "done" =>
    \A k \in 1..Len(wout) :
      wout[k].frames = 0 =>
        /\ ZeroCountsAndRates(wout[k])
        /\ \A c \in MeanCols : ~IsNaN(wout[k][c])

\* C5 amended: a row of a minute without frames has zero counts and zero
\* rates, none of them null, and its six mean columns are null.
C5_ZeroCountsNullMeans ==
  wpc = "done" =>
    \A k \in 1..Len(wout) :
      wout[k].frames = 0 =>
        /\ ZeroCountsAndRates(wout[k])
        /\ \A c \in MeanCols : IsNaN(wout[k][c])

\* C5 witness: a returned table with a minute that holds frames and a minute
\* that holds none.
C5_Witness ==
  /\ wpc = "done"
  /\ \E j, k \in 1..Len(wout) : wout[j].frames > 0 /\ wout[k].frames = 0

\* C6: in a row of a minute that holds frames, with a frame period p that is
\* a number, coverage_s = min(frames * p, 60), voice_seconds =
\* min(voice_frames * p, coverage_s), voice_rate_time = voice_seconds /
\* coverage_s when coverage_s > 0 and 0 otherwise; 30 frames at p = 2 give
\* voice_rate_time = 1 with 30 voice frames and 1/3 with 10.
C6_CoverageFormulas ==
  wpc = "done" =>
    \A k \in 1..Len(wout) :
      LET r   == wout[k]
          p   == r.frame_period_s
          cov == RMin(RScale(r.frames, p), Rat(60, 1))
          vs  == RMin(RScale(r.voice_frames, p), cov)
      IN  (r.frames > 0 /\ ~IsNaN(p)) =>
            /\ REq(r.coverage_s, cov)
            /\ REq(r.voice_seconds, vs)
            /\ IF cov.num > 0
               THEN REq(r.voice_rate_time, RDiv(vs, cov))
               ELSE r.voice_rate_time.num = 0
            /\ (r.frames = 30 /\ REq(p, Rat(2, 1)) /\ r.voice_frames = 30)
                 => REq(r.voice_rate_time, Rat(1, 1))
            /\ (r.frames = 30 /\ REq(p, Rat(2, 1)) /\ r.voice_frames = 10)
                 => REq(r.voice_rate_time, Rat(1, 3))

\* C6 witness: a minute with 30 frames at a 2 s period, 10 of them voice.
C6_Witness ==
  /\ wpc = "done"
  /\ Len(wout) = 2
  /\ wout[2].frames = 30 /\ wout[2].voice_frames = 10
  /\ REq(wout[2].frame_period_s, Rat(2, 1))
  /\ REq(wout[2].voice_rate_time, Rat(1, 3))

(* --------------------------- main properties --------------------------- *)
\* the minutes of the requested window
WindowMinutes == {m \in start_ep..(end_ep - 1) : m % 60 = 0}

ZeroFilledGrid(t) ==
  /\ Len(t.rows) = Cardinality(WindowMinutes)
  /\ \A m \in WindowMinutes : \E k \in 1..Len(t.rows) : t.rows[k].ts_min_utc = m
  /\ \A k \in 1..Len(t.rows) : ZeroCountsAndRates(t.rows[k])

\* C8 as stated: when no frame is retained, main completes and its output
\* is a zero-filled table, one row per minute of the requested window.
C8_Original ==
  (mpc = "done" /\ rows = <<>>) =>
    /\ out_parq.written
    /\ ZeroFilledGrid(out_parq)

\* C8 amended: when the reader returns without a retained frame, main
\* completes without failure and writes a well-formed empty table: the
\* columns of a MinuteBucket table and no row.
C8_EmptyTableWhenNoFrames ==
  (rpc = "done" /\ rows = <<>>) =>
    /\ mpc \in {"read", "done"}
    /\ mpc = "read" => out_parq = NoFile /\ ENABLED MainEmpty
    /\ mpc = "done" =>
         /\ out_parq.written
         /\ out_parq.columns = WorkerCols
         /\ out_parq.rows = <<>>

\* C8 witness: main is done after a read of a file whose frames all lie
\* outside the window.
C8_Witness ==
  /\ mpc = "done"
  /\ rows = <<>>
  /\ out_parq.written
  /\ Len(input_dirs) = 1
  /\ input_dirs[1].files # <<>>
  /\ input_dirs[1].files[1].secs = <<EarlySec, LateSec>>

TaskRaises(i) == RunTask(tasks[i]).raised

RowsOfKit(t, kit) == SelectSeq(t.rows, LAMBDA r : r.kit_code = kit)

FramesOfKit(kit) ==
  LET own == SelectSeq(ff, LAMBDA r : r.kit_code = kit)
  IN  [k \in 1..Len(own) |-> Frame(own[k].ts_unix, own[k])]

Alone(kit) == per_kit_worker(kit, FramesOfKit(kit), start_ep, end_ep)

KitNames == <<"NOISE101", "NOISE102", "NOISE103">>
KitRank(kit) == CHOOSE i \in 1..Len(KitNames) : KitNames[i] = kit

\* the place of the first frame of a kit in the frame table
FirstPos(kit) ==
  CHOOSE i \in 1..Len(ff) :
    ff[i].kit_code = kit /\ \A j \in 1..(i - 1) : ff[j].kit_code # kit

NSec(bins) == aligned_up(HDR_SIZE + bins * 8, SECTOR) \div SECTOR

RECURSIVE Layout(_, _)
Layout(secs, pos) ==
  IF pos > Len(secs) THEN <<>>
  ELSE <<pos>> \o Layout(secs, pos + NSec(secs[pos].bins))

SingleFile ==
  /\ Len(input_dirs) = 1
  /\ input_dirs[1].status = "ok"
  /\ Len(input_dirs[1].files) = 1
  /\ input_dirs[1].files[1].matches
  /\ input_dirs[1].files[1].status = "ok"
  /\ input_dirs[1].files[1].cut = 0

TheSecs == input_dirs[1].files[1].secs

\* Whole frames only, exactly one of them (neither the first nor the last)
\* with a bad magic, none of whose payload sectors begins with the magic.
OneDamagedFrame(secs) ==
  LET lay == Layout(secs, 1)
      n   == Len(lay)
      bad == {k \in 1..n : ~secs[lay[k]].magic}
  IN  /\ n >= 3
      /\ lay[n] + NSec(secs[lay[n]].bins) - 1 = Len(secs)
      /\ Cardinality(bad) = 1
      /\ \A k \in bad :
           /\ 1 < k /\ k < n
           /\ \A p \in (lay[k] + 1)..(lay[k + 1] - 1) : ~secs[p].magic

RECURSIVE Renumber(_, _)
Renumber(rs, id) ==
  IF rs = <<>> THEN <<>>
  ELSE <<[rs[1] EXCEPT !.frame_id = id]>> \o Renumber(Tail(rs), id + 1)

\* The summaries of the undamaged frames of the window, in file order.
ExpectedRows(secs) ==
  LET lay  == Layout(secs, 1)
      keep == SelectSeq(lay, LAMBDA p :
                 secs[p].magic /\ start_ep <= secs[p].ts /\ secs[p].ts < end_ep)
  IN  Renumber([k \in 1..Len(keep) |->
                  [file_name |-> 1, dir |-> 1, frame_id |-> 0,
                   ts_unix |-> secs[keep[k]].ts, bins |-> secs[keep[k]].bins,
                   pay_from |-> (keep[k] - 1) * SECTOR + HDR_SIZE,
                   pay_len |-> secs[keep[k]].bins * 8]], 0)

\* C3: in a file of whole frames with one mid-file frame whose header has a
\* bad magic, the reader returns the summaries of all the other frames of the
\* window, in file order, each with its own header fields and payload bytes.
C3_ResyncAfterBadMagic ==
  (rpc = "done" /\ SingleFile /\ OneDamagedFrame(TheSecs))
    => rows = ExpectedRows(TheSecs)

\* C3 witness: a frame, a damaged two-sector frame, a frame; both good
\* frames were returned.
C3_Witness ==
  /\ rpc = "done"
  /\ SingleFile
  /\ OneDamagedFrame(TheSecs)
  /\ Len(TheSecs) = 4
  /\ TheSecs[1].bins = 60
  /\ ~TheSecs[2].magic /\ TheSecs[2].bins = 61
  /\ Len(rows) = 2
  /\ rows[2].pay_from = 3 * SECTOR + HDR_SIZE

\* C7: every summary has start_ep <= ts_unix < end_ep; a valid frame with
\* ts = start_ep at the head of a file is retained.
C7_HalfOpenWindow ==
  /\ \A k \in 1..Len(rows) : start_ep <= rows[k].ts_unix /\ rows[k].ts_unix < end_ep
  /\ ( /\ SingleFile
       /\ rpc \in {"frame", "done"}
       /\ (rpc = "frame" => offset > 0)
       /\ Len(TheSecs) >= 1
       /\ TheSecs[1] = [magic |-> TRUE, ts |-> start_ep, bins |-> 60] )
     => ( /\ Len(rows) >= 1
          /\ rows[1].ts_unix = start_ep
          /\ rows[1].pay_from = HDR_SIZE )

\* C7 witness: frames with ts = start_ep, ts = end_ep and ts < start_ep were
\* read; only the first was retained.
C7_Witness ==
  /\ rpc = "done"
  /\ SingleFile
  /\ TheSecs = << [magic |-> TRUE, ts |-> start_ep, bins |-> 60],
                  [magic |-> TRUE, ts |-> end_ep, bins |-> 60],
                  [magic |-> TRUE, ts |-> start_ep - 1, bins |-> 60] >>
  /\ Len(rows) = 1
  /\ rows[1].ts_unix = start_ep

HasIoError ==
  \E d \in 1..Len(input_dirs) :
    \/ input_dirs[d].status # "ok"
    \/ \E f \in 1..Len(input_dirs[d].files) :
         input_dirs[d].files[f].matches /\ input_dirs[d].files[f].status # "ok"

\* C9: an I/O error on a directory or a log file never raises to the caller,
\* and the call returns with no frames.
C9_IoErrorsYieldEmpty ==
  /\ rpc # "raised"
  /\ (rpc = "done" /\ HasIoError) => rows = <<>>

\* the cursor is on a header that does not start with the magic
BadMagicAtCursor ==
  /\ rpc = "frame"
  /\ offset + HDR_SIZE <= FileSize(CurFile)
  /\ ~HeaderAt(CurFile, offset).magic

\* C12: on a header without the magic the reader appends no summary, uses
\* no frame_id, stays in the file and moves the cursor by one sector,
\* whatever bin count the header declares.
C12_BadMagicSkipsOneSector ==
  [][BadMagicAtCursor =>
       /\ rows' = rows
       /\ next_frame_id' = next_frame_id
       /\ offset' = offset + SECTOR
       /\ rpc' = "frame"
       /\ fi' = fi /\ di' = di]_vars

\* C12 witness: the first sector had no magic and declared 61 bins (two
\* sectors); the cursor is on the second sector and nothing was emitted.
C12_Witness ==
  /\ SingleFile
  /\ Len(TheSecs) >= 2
  /\ ~TheSecs[1].magic /\ TheSecs[1].bins = 61
  /\ rpc = "frame"
  /\ offset = SECTOR
  /\ rows = <<>>
  /\ next_frame_id = 0

\* the cursor is on a valid header whose payload is not whole in the file
TruncatedAtCursor ==
  /\ rpc = "frame"
  /\ offset + HDR_SIZE <= FileSize(CurFile)
  /\ HeaderAt(CurFile, offset).magic
  /\ FileSize(CurFile) - (offset + HDR_SIZE) < HeaderAt(CurFile, offset).bins * 8

\* C13: on a valid header with fewer than bins * 8 payload bytes left, the
\* reader leaves the file without a new summary and without raising, keeps
\* the summaries it has, and goes on to the next file of the directory or
\* to the next directory.
C13_TruncatedStopsFile ==
  [][TruncatedAtCursor =>
       /\ rows' = rows
       /\ next_frame_id' = next_frame_id
       /\ IF fi < Len(logs)
          THEN rpc' = "file" /\ fi' = fi + 1 /\ di' = di /\ logs' = logs
          ELSE rpc' = "dir" /\ di' = di + 1]_vars

\* C13 witness: LOG_0001 gave its first frame and was left at the cut
\* frame; LOG_0002 was read after it.
C13_Witness ==
  /\ rpc = "done"
  /\ input_dirs = <<TailCutDir>>
  /\ Len(rows) = 2
  /\ rows[1].file_name = 1 /\ rows[1].ts_unix = 61
  /\ rows[2].file_name = 2 /\ rows[2].ts_unix = 63

\* C18 as stated: over all the directories, a file with a smaller index is
\* parsed, and its frames numbered, before any file with a larger index.
C18_Original ==
  \A j, k \in 1..Len(rows) : j < k => rows[j].file_name <= rows[k].file_name

\* C18 amended: the directories are read in the order given and, within a
\* directory, the files in ascending order of their index.
C18_IndexOrderWithinDirectory ==
  /\ \A j, k \in 1..Len(logs) : j < k => logs[j].idx < logs[k].idx
  /\ \A j, k \in 1..Len(rows) :
       j < k => \/ rows[j].dir < rows[k].dir
                \/ rows[j].dir = rows[k].dir /\ rows[j].file_name <= rows[k].file_name
  /\ \A k \in 1..Len(rows) :
       /\ rows[k].dir <= di
       /\ (rows[k].dir = di /\ fi > 0) => rows[k].file_name <= logs[fi].idx

\* C18 witness: a directory listed as LOG_0002, LOG_0001 was read in index
\* order, then LOG_0001 of a second directory.
C18_Witness ==
  /\ rpc = "done"
  /\ Len(input_dirs) = 2
  /\ input_dirs[1] = TailCutDir
  /\ Len(rows) = 3
  /\ rows[1].file_name = 1 /\ rows[2].file_name = 2 /\ rows[3].file_name = 1
  /\ rows[3].dir = 2

\* C19: the frame ids of the summaries are 0, 1, 2, ... in emission order,
\* over all files and directories, and next_frame_id is their number.
C19_FrameIdIncreasing ==
  /\ \A j, k \in 1..Len(rows) : j < k => rows[j].frame_id < rows[k].frame_id
  /\ \A k \in 1..Len(rows) : rows[k].frame_id = k - 1
  /\ next_frame_id = Len(rows)

\* C19 witness: three summaries from three files of two directories, a cut
\* frame between the first and the second.
C19_Witness ==
  /\ rpc = "done"
  /\ Len(input_dirs) = 2
  /\ input_dirs[1] = TailCutDir
  /\ Len(rows) = 3
  /\ rows[1].frame_id = 0 /\ rows[2].frame_id = 1 /\ rows[3].frame_id = 2
  /\ rows[2].file_name # rows[1].file_name
  /\ rows[3].dir # rows[2].dir

\* the frame size of every bin count a header can declare is rounded up to
\* the next multiple of the sector size
AlignedForAllBins ==
  \A b \in 0..MaxBins :
    LET raw == HDR_SIZE + b * 8
        a   == aligned_up(raw, SECTOR)
    IN  a % SECTOR = 0 /\ a >= raw /\ a - raw < SECTOR

\* C20: every header is read at an offset that is a multiple of the sector
\* size, and every advance the reader can make is a multiple of it.
C20_CursorSectorAligned ==
  /\ AlignedForAllBins
  /\ rpc = "frame" => offset % SECTOR = 0

\* C20 witness: the cursor after a bad-magic sector, a skipped frame out of
\* the window and a retained frame of 61 bins (two sectors).
C20_Witness ==
  /\ SingleFile
  /\ Len(TheSecs) = 4
  /\ ~TheSecs[1].magic
  /\ TheSecs[2].magic /\ TheSecs[2].ts = end_ep /\ TheSecs[2].bins = 60
  /\ TheSecs[3].magic /\ TheSecs[3].ts = start_ep /\ TheSecs[3].bins = 61
  /\ rpc = "frame"
  /\ offset = 4 * SECTOR
  /\ Len(rows) = 1

(* ------------------------- detector properties ------------------------- *)
\* C1: a frame classified voice=1 leaves the baseline unchanged, so after any
\* run of consecutive voice=1 frames i..j the baseline (bases[j+1]) equals its
\* value just before the run (bases[i]), whatever the bandRMS inside the run.
C1_FrozenDuringVoice ==
  /\ dpc \in {"loop", "done", "raised"} => baseline = bases[Len(bases)]
  /\ \A i \in 1..Len(voice) : \A j \in i..Len(voice) :
       (\A k \in i..j : voice[k] = 1) => bases[j + 1] = bases[i]

\* C1 witness: two consecutive voice frames have been processed, the second
\* one with a bandRMS different from the frozen baseline.
C1_Witness ==
  /\ Len(voice) >= 4
  /\ voice[3] = 1 /\ voice[4] = 1
  /\ g[4].bandRMS # bases[3]
  /\ PyMaxFloor(g[4].bandRMS, EPS) # bases[5]

\* C2: with CONFIRM_FRAMES = 2, frame i is voice iff frames i and i-1 are both
\* candidates; the first frame is never voice, and the candidate flags
\* [no, yes, yes] give voice = [0, 0, 1].
C2_ConfirmTwoFrames ==
  /\ \A i \in 1..Len(voice) :
       (voice[i] = 1) <=> (cands[i] /\ i > 1 /\ cands[i - 1])
  /\ (Len(voice) >= 3 /\ ~cands[1] /\ cands[2] /\ cands[3])
       => SubSeq(voice, 1, 3) = <<0, 0, 1>>

\* C2 witness: the run [no, yes, yes] has been processed to the end.
C2_Witness ==
  /\ dpc = "done"
  /\ cands = <<FALSE, TRUE, TRUE>>
  /\ voice = <<0, 0, 1>>

IsFinite(x) == x # NAN /\ x # INF

HasNan(f) == f.bandRMS = NAN \/ f.sfm = NAN \/ f.snr_lin = NAN

\* C15 as stated: a frame with a nan feature is a non-candidate, the
\* baseline after it is a finite number, and the intensity and the score of
\* every later frame are numbers.
C15_NanNotPropagated ==
  \A k \in 1..Len(voice) :
    HasNan(g[k]) =>
      /\ ~cands[k] /\ voice[k] = 0
      /\ IsFinite(bases[k + 1])
      /\ \A j \in (k + 1)..Len(voice) : inten[j] # NAN /\ score[j] # NAN

\* the k-th smallest of the values of a sequence
KthSmallest(vals, k) ==
  CHOOSE v \in {vals[i] : i \in 1..Len(vals)} :
    /\ Cardinality({i \in 1..Len(vals) : vals[i] < v}) < k
    /\ Cardinality({i \in 1..Len(vals) : vals[i] <= v}) >= k

\* the median of the numbers among the first n bandRMS values of g
MedianOfFirst(n) ==
  LET m    == IF n <= Len(g) THEN n ELSE Len(g)
      vals == SelectSeq([k \in 1..m |-> g[k].bandRMS], LAMBDA x : x # NAN)
      c    == Len(vals)
      lo   == KthSmallest(vals, (c + 1) \div 2)
      hi   == KthSmallest(vals, c \div 2 + 1)
  IN  IF c = 0 THEN NAN
      ELSE IF hi = INF THEN (IF c % 2 = 0 \/ lo = INF THEN INF ELSE lo)
      ELSE (lo + hi) \div 2

\* the floor at EPS of a number; nan and inf stay as they are
Floored(x) == IF x = NAN \/ x = INF THEN x ELSE IF x < EPS THEN EPS ELSE x

TsOrdered == \A j, k \in 1..Len(g) : j < k => g[j].ts_unix <= g[k].ts_unix

\* C16 as stated: the initial baseline is the floored median of the first
\* 20 frames when the source has at least 20 frames, and the floored
\* bandRMS of the first frame when it has fewer.
C16_Original ==
  (dpc \in {"loop", "done", "raised"} /\ \A k \in 1..Len(g) : IsFinite(g[k].bandRMS)) =>
    bases[1] = IF Len(g) >= 20 THEN Floored(MedianOfFirst(20))
               ELSE Floored(g[1].bandRMS)

\* C16 amended: with the frames in timestamp order, the initial baseline is
\* the floored median of the numbers among the bandRMS of the first 20
\* frames (of all the frames when there are fewer) when the source has at
\* least 5 frames, and the floored bandRMS of the first frame when it has
\* fewer than 5; a nan is not floored.
C16_InitialBaseline ==
  dpc \in {"loop", "done", "raised"} =>
    /\ TsOrdered
    /\ bases[1] = IF Len(g) >= 5 THEN Floored(MedianOfFirst(20))
                  ELSE Floored(g[1].bandRMS)

\* C16 witness: a source of 19 frames, all numbers, whose initial baseline
\* is the median and not the bandRMS of its first frame.
C16_Witness ==
  /\ dpc = "done"
  /\ Len(g) = 19
  /\ g[1].ts_unix < g[19].ts_unix
  /\ \A k \in 1..Len(g) : IsFinite(g[k].bandRMS)
  /\ bases[1] # Floored(g[1].bandRMS)
  /\ bases[1] = Floored(MedianOfFirst(20))

(* ------------------------- the frame header ---------------------------- *)
\* line 42: HDR_FMT = "<4sQ B f f H f H 3s"; "<" means little-endian, standard
\* sizes and no padding.  One entry per field: its format character and its
\* repeat count.
HDR_FMT ==
  << [code |-> "s", count |-> 4], [code |-> "Q", count |-> 1],
     [code |-> "B", count |-> 1], [code |-> "f", count |-> 1],
     [code |-> "f", count |-> 1], [code |-> "H", count |-> 1],
     [code |-> "f", count |-> 1], [code |-> "H", count |-> 1],
     [code |-> "s", count |-> 3] >>

\* the standard size of a format character of the struct module
StdSize(code) ==
  CASE code = "s" -> 1
    [] code = "B" -> 1
    [] code = "H" -> 2
    [] code = "f" -> 4
    [] code = "Q" -> 8

FieldSize(fld) == fld.count * StdSize(fld.code)

RECURSIVE calcsize(_)
calcsize(fmt) ==
  IF fmt = <<>> THEN 0 ELSE FieldSize(Head(fmt)) + calcsize(Tail(fmt))

FieldOffset(fmt, k) == calcsize(SubSeq(fmt, 1, k - 1))

\* mutant: the most significant byte comes first
RECURSIVE LEValue_BigEndian(_)
LEValue_BigEndian(bs) ==
  IF bs = <<>> THEN 0
  ELSE bs[Len(bs)] + 256 * LEValue_BigEndian(SubSeq(bs, 1, Len(bs) - 1))

\* the unsigned value of bytes stored least significant byte first
RECURSIVE LEValue(_)
LEValue(bs) ==
  IF bs = <<>> THEN 0 ELSE Head(bs) + 256 * LEValue(Tail(bs))

\* struct.unpack: one value per field, taken at the field's offset; a float
\* is kept as the 32-bit pattern it is stored as
unpack(fmt, bs) ==
  [k \in 1..Len(fmt) |->
     LET part == SubSeq(bs, FieldOffset(fmt, k) + 1,
                        FieldOffset(fmt, k) + FieldSize(fmt[k]))
     IN  IF fmt[k].code = "s" THEN part ELSE LEValue(part)]

\* line 91: the names the unpacked tuple is assigned to
HeaderFields(bs) ==
  LET t == unpack(HDR_FMT, bs)
  IN  [magic |-> t[1], ts |-> t[2], voice |-> t[3], snr |-> t[4],
       energy |-> t[5], peaks |-> t[6], contrast |-> t[7], bins |-> t[8],
       res |-> t[9]]

\* line 91
HdUnpack ==
  /\ hpc = "packed"
  /\ hdr_fields' = HeaderFields(hdr_bytes)
  /\ hpc' = "unpacked"
  /\ UNCHANGED <<hdr_bytes, xpc, payload, summ, feat>>
  /\ UNCHANGED <<detVars, rdVars, wkVars, mainVars>>

HdNext == HdUnpack

\* the bytes of b"FFT2"
MAGIC == <<70, 70, 84, 50>>

ByteVals == 0..MaxByte

\* headers of a frame stamped 0 with the flag set and two floats 1.0 and
\* 2.0: the eight bytes after the second float are arbitrary
HeaderInputs ==
  { MAGIC \o <<0, 0, 0, 0, 0, 0, 0, 0>> \o <<1>> \o <<0, 0, 128, 63>>
      \o <<0, 0, 0, 64>> \o v \o <<0, 0, 0>> : v \in [1..8 -> ByteVals] }

HdInit ==
  /\ DetIdle
  /\ RdIdle
  /\ WkIdle
  /\ MainIdle
  /\ hpc = "packed"
  /\ hdr_bytes \in HeaderInputs
  /\ hdr_fields = <<>>
  /\ xpc = "idle"
  /\ payload = <<>>
  /\ summ = <<>>
  /\ feat = <<>>

SpecHeader == HdInit /\ [][HdNext]_vars

(* ----------------------- header: properties ---------------------------- *)
\* the unsigned number stored in the n bytes from byte offset from on, least
\* significant byte first
RECURSIVE BytesAt(_, _, _)
BytesAt(bs, from, n) ==
  IF n = 0 THEN 0 ELSE bs[from + 1] + 256 * BytesAt(bs, from + 1, n - 1)

\* C21 as stated: the header is a 4-byte magic, an 8-byte timestamp, a 1-byte
\* flag, three 4-byte floats one after the other, the 2-byte bin count right
\* after them (byte offset 25) and 3 reserved bytes, so that the payload
\* begins at byte 30.
C21_Original ==
  hpc = "unpacked" =>
    /\ hdr_fields.contrast = BytesAt(hdr_bytes, 21, 4)
    /\ hdr_fields.bins = BytesAt(hdr_bytes, 25, 2)
    /\ calcsize(HDR_FMT) = 30

\* C21 (amended): the header is 32 bytes, little-endian and unpadded: a 4-byte
\* magic, an 8-byte unsigned timestamp, a 1-byte flag, two 4-byte floats, a
\* 2-byte unsigned peak count, a third 4-byte float, the 2-byte unsigned bin
\* count and 3 reserved bytes.  The bin count is the field right after the
\* third float, at byte offset 27, and the payload begins at byte 32, right
\* after the reserved bytes.
C21_HeaderLayout ==
  hpc = "unpacked" =>
    /\ Len(hdr_bytes) = HDR_SIZE
    /\ calcsize(HDR_FMT) = HDR_SIZE
    /\ hdr_fields.magic = SubSeq(hdr_bytes, 1, 4)
    /\ hdr_fields.ts = BytesAt(hdr_bytes, 4, 8)
    /\ hdr_fields.voice = BytesAt(hdr_bytes, 12, 1)
    /\ hdr_fields.snr = BytesAt(hdr_bytes, 13, 4)
    /\ hdr_fields.energy = BytesAt(hdr_bytes, 17, 4)
    /\ hdr_fields.peaks = BytesAt(hdr_bytes, 21, 2)
    /\ hdr_fields.contrast = BytesAt(hdr_bytes, 23, 4)
    /\ hdr_fields.bins = BytesAt(hdr_bytes, 27, 2)
    /\ hdr_fields.res = SubSeq(hdr_bytes, 30, HDR_SIZE)
    /\ FieldOffset(HDR_FMT, 8) = FieldOffset(HDR_FMT, 7) + 4
    /\ FieldOffset(HDR_FMT, Len(HDR_FMT)) + 3 = HDR_SIZE

\* a header whose bin count has two different bytes and differs from the
\* two bytes at offset 25
C21_Witness ==
  /\ hpc = "unpacked"
  /\ hdr_fields.magic = MAGIC
  /\ hdr_bytes[28] # hdr_bytes[29]
  /\ hdr_fields.bins # BytesAt(hdr_bytes, 25, 2)
  /\ hdr_fields.peaks # 0

(* ---------------------- detector: the EMA update ----------------------- *)
\* x lies between a and b, infinity being the largest value
Between(x, a, b) == Min2(a, b) <= x /\ x <= Max2(a, b)

\* C22: on every frame whose final voice flag is 0, a candidate frame whose
\* confirm count is still below CONFIRM_FRAMES included, the baseline becomes
\* 0.95 * baseline + 0.05 * max(bandRMS, EPS) (a nan or an infinite term
\* gives a nan or an infinite baseline); the new value lies between the old
\* baseline and max(bandRMS, EPS); and as long as no bandRMS is nan the
\* baseline is never below EPS.
C22_EmaOnNonVoice ==
  /\ \A k \in 1..Len(voice) :
       voice[k] = 0 =>
         LET old == bases[k]
             mx  == IF g[k].bandRMS = NAN THEN NAN
                    ELSE IF g[k].bandRMS < EPS THEN EPS ELSE g[k].bandRMS
             new == bases[k + 1]
         IN  /\ (old = NAN \/ mx = NAN) => new = NAN
             /\ (old # NAN /\ mx # NAN /\ (old = INF \/ mx = INF)) => new = INF
             /\ (IsFinite(old) /\ IsFinite(mx)) =>
                  /\ BASELINE_ALPHA_DEN * new <= (BASELINE_ALPHA_DEN - 1) * old + mx
                  /\ (BASELINE_ALPHA_DEN - 1) * old + mx < BASELINE_ALPHA_DEN * (new + 1)
             /\ (old # NAN /\ mx # NAN) => Between(new, old, mx)
  /\ (\A k \in 1..Len(g) : g[k].bandRMS # NAN) =>
       \A k \in 1..Len(bases) : bases[k] # NAN /\ bases[k] >= EPS

\* C22 witness: a candidate frame that is not yet voice has pulled a finite
\* baseline up, towards its bandRMS.
C22_Witness ==
  \E k \in 1..Len(voice) :
    /\ cands[k] /\ voice[k] = 0
    /\ IsFinite(bases[k]) /\ IsFinite(g[k].bandRMS)
    /\ bases[k] < bases[k + 1] /\ bases[k + 1] < g[k].bandRMS

(* ------------------------ reader: termination -------------------------- *)
\* The reader under the scheduling of a sequential program: a step that can
\* be taken is taken.
SpecReaderFair == RdInit /\ [][RdNext]_vars /\ WF_vars(RdNext)

\* the number of sectors a file of n bytes spans, ceil(n / SECTOR)
SectorsOf(n) == (n + SECTOR - 1) \div SECTOR

\* one iteration of the loop of line 86 has run
LoopIteration == rpc = "frame" /\ iters' = iters + 1

\* C23: stream_frames_to_summaries terminates.  Every iteration of the
\* per-file loop either stops reading the file or moves the cursor forward by
\* at least SECTOR bytes, so no offset is visited twice, and a file of S
\* bytes takes at most ceil(S / SECTOR) iterations.
C23_ReaderTerminates ==
  /\ <>(rpc \in {"done", "raised"})
  /\ [][LoopIteration => (rpc' # "frame" \/ offset' >= offset + SECTOR)]_vars
  /\ [][(rpc = "frame" /\ rpc' = "frame") => offset' > offset]_vars
  /\ [][LoopIteration =>
        /\ iters' * SECTOR <= offset + SECTOR
        /\ iters' <= SectorsOf(FileSize(CurFile))]_vars

\* C23 witness: a file of four sectors has taken four iterations, and the
\* reader has returned.
C23_Witness ==
  /\ rpc = "done"
  /\ iters = MaxSectors
  /\ offset = MaxSectors * SECTOR
  /\ Len(rows) = 1

(* -------------------- reader: the decoded length ----------------------- *)
\* the cursor is on a valid header of the window whose payload is whole
WholeFrameAtCursor ==
  /\ rpc = "frame"
  /\ offset + HDR_SIZE <= FileSize(CurFile)
  /\ HeaderAt(CurFile, offset).magic
  /\ FileSize(CurFile) - (offset + HDR_SIZE) >= HeaderAt(CurFile, offset).bins * 8
  /\ start_ep <= HeaderAt(CurFile, offset).ts
  /\ HeaderAt(CurFile, offset).ts < end_ep

\* C30: when the reader reaches the check of the decoded length, the payload
\* it read has exactly bins * 8 bytes, so the decoded array holds 2 * bins
\* values and the length-mismatch skip is not taken: every frame of the
\* window with a valid magic and a whole payload is emitted, with the next
\* frame_id.
C30_WholeFrameEmitted ==
  [][WholeFrameAtCursor =>
       LET hdr == HeaderAt(CurFile, offset)
       IN  /\ PayloadRead(CurFile, offset, hdr.bins * 8) = hdr.bins * 8
           /\ Len(rows') = Len(rows) + 1
           /\ SubSeq(rows', 1, Len(rows)) = rows
           /\ rows'[Len(rows')].ts_unix = hdr.ts
           /\ rows'[Len(rows')].frame_id = next_frame_id
           /\ rows'[Len(rows')].pay_len = 4 * (2 * hdr.bins)
           /\ next_frame_id' = next_frame_id + 1]_vars

\* C30 witness: two frames of the window, of 60 and of 61 bins, have been
\* emitted one after the other.
C30_Witness ==
  /\ SingleFile
  /\ Len(rows) = 2
  /\ rows[1].bins = 60 /\ rows[1].pay_len = 480
  /\ rows[2].bins = 61 /\ rows[2].pay_len = 488
  /\ rows[2].frame_id = 1

(* ------------------- frame summary and frame features ------------------ *)
\* Magnitudes, their means and the RMS values are in units of 1e-12 (EPS),
\* sums of squares in units of SQ_ROOT^2 * 1e-24, logarithms in base 2
\* (LOG_UNIT is the logarithm of 1e-12), sfm and snr_lin in hundredths; every
\* rounding is downwards.  NAN and INF stand for the float values nan and
\* +inf; a finite geometric mean above GM_SAT is kept as GM_SAT and a finite
\* sfm above SFM_SAT as SFM_SAT.
VOICE_MIN_HZ == 100
VOICE_MAX_HZ == 4000
SNR_CAP == 1000000
SQ_ROOT == 65536
LOG_UNIT == -40
GM_SAT == 1073741824
SFM_SAT == 10000000

Abs(x) == IF x < 0 THEN 0 - x ELSE x

\* a + b of floats, a and b never -inf
XAdd(a, b) ==
  IF a = NAN \/ b = NAN THEN NAN
  ELSE IF a = INF \/ b = INF THEN INF
  ELSE a + b

\* a - b of floats (inf - inf is nan), a >= b when both are finite
XSub(a, b) ==
  IF a = NAN \/ b = NAN THEN NAN
  ELSE IF b = INF THEN NAN
  ELSE IF a = INF THEN INF
  ELSE a - b

\* x / n of a float by a count n >= 1
XDivN(x, n) == IF x = NAN \/ x = INF THEN x ELSE x \div n

\* np.maximum(x, floor): a nan stays a nan
NpMaximum(x, floor) ==
  IF x = NAN THEN NAN
  ELSE IF x = INF THEN INF
  ELSE Max2(x, floor)

RECURSIVE SqrtIn(_, _, _)
SqrtIn(x, lo, hi) ==
  IF lo = hi THEN lo
  ELSE LET mid == (lo + hi + 1) \div 2
       IN  IF mid * mid <= x THEN SqrtIn(x, mid, hi) ELSE SqrtIn(x, lo, mid - 1)

\* np.sqrt of a sum of squares, as a value in units of 1e-12
XSqrt(x) ==
  IF x = NAN \/ x = INF THEN x ELSE SqrtIn(x, 0, 32767) * SQ_ROOT

\* m * m
Square(mag) ==
  IF mag = NAN \/ mag = INF THEN mag
  ELSE (Abs(mag) \div SQ_ROOT) * (Abs(mag) \div SQ_ROOT)

RECURSIVE Log2(_)
Log2(x) == IF x <= 1 THEN 0 ELSE 1 + Log2(x \div 2)

\* np.log(np.maximum(m, EPS))
LogFloored(mag) ==
  IF mag = NAN \/ mag = INF THEN mag ELSE Log2(Max2(mag, EPS)) + LOG_UNIT

\* line 117
in_band(freq) == freq >= VOICE_MIN_HZ /\ freq <= VOICE_MAX_HZ

\* np.sum of float64 values
RECURSIVE NpSum(_)
NpSum(xs) == IF xs = <<>> THEN 0 ELSE XAdd(Head(xs), NpSum(Tail(xs)))

\* mutant: the counts are kept as they are
ClampCount_None(n) == n

\* lines 129-130
ClampCount(n) == IF n = 0 THEN 1 ELSE n

\* lines 115-137: the sums and counts kept of one frame's (freq, mag) pairs
FrameSummary(pairs) ==
  LET m_band == SelectSeq(pairs, LAMBDA p : in_band(p.freq))
  IN  [sum_band         |-> NpSum([k \in 1..Len(m_band) |-> Square(m_band[k].mag)]),
       sum_all          |-> NpSum([k \in 1..Len(pairs) |-> Square(pairs[k].mag)]),
       n_band           |-> ClampCount(Len(m_band)),
       n_all            |-> ClampCount(Len(pairs)),
       sum_mag_band     |-> NpSum([k \in 1..Len(m_band) |-> m_band[k].mag]),
       sum_log_mag_band |-> NpSum([k \in 1..Len(m_band) |-> LogFloored(m_band[k].mag)])]

RECURSIVE Pow(_, _)
Pow(b, e) == IF e = 0 THEN 1 ELSE b * Pow(b, e - 1)

RECURSIVE RootIn(_, _, _, _)
RootIn(n, x, lo, hi) ==
  IF lo = hi THEN lo
  ELSE LET mid == (lo + hi + 1) \div 2
       IN  IF Pow(mid, n) <= x THEN RootIn(n, x, mid, hi)
           ELSE RootIn(n, x, lo, mid - 1)

\* np.exp(sum_log / n) in units of 1e-12: 2^q * 2^(r/n) with
\* sum_log - n * LOG_UNIT = q * n + r, the second factor in hundredths
ExpMean(sum_log, n) ==
  IF sum_log = NAN \/ sum_log = INF THEN sum_log
  ELSE LET e    == sum_log - n * LOG_UNIT
           q    == e \div n
           r    == e % n
           frac == RootIn(n, Pow(2, r) * Pow(100, n), 100, 200)
       IN  IF q >= 30 THEN GM_SAT
           ELSE IF r = 0 THEN Pow(2, q)
           ELSE IF q >= 2 THEN (Pow(2, q - 2) * frac) \div 25
           ELSE (Pow(2, q) * frac) \div 100

\* 100 * num / den rounded down and kept at sat when it is above sat, for
\* num >= 0 and den > 0 finite
Hundredths(num, den, sat) ==
  IF num \div den >= sat \div 100 THEN sat
  ELSE IF num <= 20000000 THEN (100 * num) \div den
  ELSE num \div (den \div 100)

\* np.clip(gm / den, 0, np.inf) in hundredths, gm > 0 or nan: a nan stays a
\* nan and a negative quotient becomes 0
SfmClipped(gm, den) ==
  IF gm = NAN \/ den = NAN THEN NAN
  ELSE IF gm = INF /\ den = INF THEN NAN
  ELSE IF den = INF THEN 0
  ELSE IF den < 0 THEN 0
  ELSE IF gm = INF \/ den = 0 THEN INF
  ELSE Hundredths(gm, den, SFM_SAT)

\* np.clip((bandRMS / noiseRMS) ** 2, 0, SNR_CAP) in hundredths
SnrClipped(b, n) ==
  IF b = NAN \/ n = NAN THEN NAN
  ELSE IF b = INF /\ n = INF THEN NAN
  ELSE IF n = INF THEN 0
  ELSE IF b = INF THEN SNR_CAP
  ELSE LET ratio == Hundredths(b, n, 10000)
       IN  Min2((ratio * ratio) \div 100, SNR_CAP)

\* lines 156-184, on one row of the frame table
to_frame_features(row) ==
  LET n_all    == Max2(row.n_all, 1)
      n_band   == Max2(row.n_band, 1)
      bandRMS  == XSqrt(XDivN(row.sum_band, n_band))
      sum_noise == NpMaximum(XSub(row.sum_all, row.sum_band), 0)
      n_noise  == Max2(n_all - n_band, 1)
      noiseRMS == NpMaximum(XSqrt(XDivN(sum_noise, n_noise)), NOISE_RMS_FLOOR)
      am_mag   == XDivN(row.sum_mag_band, n_band)
      gm_mag   == ExpMean(row.sum_log_mag_band, n_band)
  IN  [bandRMS  |-> bandRMS,
       noiseRMS |-> noiseRMS,
       sfm      |-> SfmClipped(gm_mag, XAdd(am_mag, EPS)),
       snr_lin  |-> SnrClipped(bandRMS, noiseRMS)]

\* lines 108-137
ExSummarize ==
  /\ xpc = "payload"
  /\ summ' = FrameSummary(payload)
  /\ xpc' = "summary"
  /\ UNCHANGED <<hpc, hdr_bytes, hdr_fields, payload, feat>>
  /\ UNCHANGED <<detVars, rdVars, wkVars, mainVars>>

\* line 296
ExFeatures ==
  /\ xpc = "summary"
  /\ feat' = to_frame_features(summ)
  /\ xpc' = "features"
  /\ UNCHANGED <<hpc, hdr_bytes, hdr_fields, payload, summ>>
  /\ UNCHANGED <<detVars, rdVars, wkVars, mainVars>>

ExNext == ExSummarize \/ ExFeatures

\* frequencies on both sides of the two band edges
FreqVals == {VOICE_MIN_HZ - 1, VOICE_MIN_HZ, VOICE_MAX_HZ, VOICE_MAX_HZ + 1}

\* magnitudes: none, about 1e-6, 2e-6 and 1.3e-4, a negative one, nan and inf
MagVals == {0, 1048576, 2097152, 134217728, -1048576, NAN, INF}

Pairs == [freq : FreqVals, mag : MagVals]

ExInit ==
  /\ DetIdle
  /\ RdIdle
  /\ WkIdle
  /\ MainIdle
  /\ hpc = "idle"
  /\ hdr_bytes = <<>>
  /\ hdr_fields = <<>>
  /\ xpc = "payload"
  /\ payload \in SeqsUpTo(Pairs, MaxPairs)
  /\ summ = <<>>
  /\ feat = <<>>

SpecExtract == ExInit /\ [][ExNext]_vars

(* ----------------------- extractor: properties ------------------------- *)
\* the pairs of the payload whose frequency is in the voice band
InBandPairs == SelectSeq(payload, LAMBDA p : p.freq >= VOICE_MIN_HZ /\ p.freq <= VOICE_MAX_HZ)

\* C24: every emitted FrameSummary has 1 <= n_band <= n_all after the
\* clamping of the two counts to at least 1, for any bin count, 0 included,
\* and any number of in-band bins, 0 included.
C24_CountsClamped ==
  xpc \in {"summary", "features"} =>
    /\ 1 <= summ.n_band
    /\ summ.n_band <= summ.n_all
    /\ summ.n_all = (IF payload = <<>> THEN 1 ELSE Len(payload))
    /\ summ.n_band = (IF InBandPairs = <<>> THEN 1 ELSE Len(InBandPairs))

\* C24 witness: a frame of one bin, out of the band: both counts are 1.
C24_Witness ==
  /\ xpc = "summary"
  /\ Len(payload) = 1
  /\ InBandPairs = <<>>
  /\ summ.n_band = 1 /\ summ.n_all = 1

\* a frame whose magnitudes are all finite
FinitePayload == \A k \in 1..Len(payload) : IsFinite(payload[k].mag)

\* C25 as stated: for every summary the reader can emit, to_frame_features
\* returns noiseRMS >= NOISE_RMS_FLOOR, sfm >= 0 and 0 <= snr_lin <= SNR_CAP.
C25_FeaturesInRange ==
  xpc = "features" =>
    /\ feat.noiseRMS # NAN /\ feat.noiseRMS >= NOISE_RMS_FLOOR
    /\ feat.sfm # NAN /\ feat.sfm >= 0
    /\ feat.snr_lin # NAN /\ feat.snr_lin >= 0 /\ feat.snr_lin <= SNR_CAP

\* the three ranges hold of every frame whose magnitudes are finite
FiniteFeaturesInRange ==
  (xpc = "features" /\ FinitePayload) =>
    /\ feat.noiseRMS # NAN /\ feat.noiseRMS >= NOISE_RMS_FLOOR
    /\ feat.sfm # NAN /\ feat.sfm >= 0
    /\ feat.snr_lin # NAN /\ feat.snr_lin >= 0 /\ feat.snr_lin <= SNR_CAP

(* ------------------ worker: coverage, counts and rates ----------------- *)
\* the frames of the source are in non-decreasing order of timestamp
FileOrderAscending == \A k \in 1..(Len(wg) - 1) : wg[k].ts_unix <= wg[k + 1].ts_unix

CoverageInRange(r) ==
  /\ ~IsNaN(r.coverage_s) /\ RLe(RZero, r.coverage_s) /\ RLe(r.coverage_s, Rat(60, 1))
  /\ ~IsNaN(r.coverage_rate) /\ RLe(RZero, r.coverage_rate)
  /\ RLe(r.coverage_rate, Rat(1, 1))
  /\ ~IsNaN(r.voice_seconds) /\ RLe(RZero, r.voice_seconds)
  /\ RLe(r.voice_seconds, r.coverage_s)

\* C26 as stated: every row per_kit_worker returns has 0 <= coverage_s <= 60,
\* 0 <= coverage_rate <= 1 and 0 <= voice_seconds <= coverage_s, for every
\* frame stream the reader can produce, those whose timestamps are not in
\* non-decreasing order in the files included.
C26_CoverageInRange ==
  wpc = "done" => \A k \in 1..Len(wout) : CoverageInRange(wout[k])

\* the ranges hold of every source whose file order is the timestamp order
AscendingCoverageInRange ==
  (wpc = "done" /\ FileOrderAscending) =>
    \A k \in 1..Len(wout) : CoverageInRange(wout[k])

\* the sum of column c over the returned rows
RECURSIVE SumCol(_, _)
SumCol(tbl, c) == IF tbl = <<>> THEN 0 ELSE Head(tbl)[c] + SumCol(Tail(tbl), c)

AllInWindow == \A k \in 1..Len(wg) : start_ep <= wg[k].ts_unix /\ wg[k].ts_unix < end_ep

\* the number of frames the detector flags as voice
VoiceCount ==
  LET det == stateful_detect_one_kit(wg).det
  IN  Cardinality({k \in 1..Len(det) : det[k].voice = 1})

\* C27: when every input frame has its timestamp in [start_ep, end_ep), the
\* sum of frames over the returned rows is the number of input frames and
\* the sum of voice_frames is the number of frames flagged voice: no frame
\* is lost or counted twice by the grouping and the join on the grid.
C27_FramesConserved ==
  (wpc = "done" /\ AllInWindow) =>
    /\ SumCol(wout, "frames") = Len(wg)
    /\ SumCol(wout, "voice_frames") = VoiceCount

\* C27 witness: 41 frames over two minutes of the window, 11 and 30, ten of
\* them voice.
C27_Witness ==
  /\ wpc = "done"
  /\ AllInWindow
  /\ Len(wout) = 2
  /\ wout[1].frames = 11 /\ wout[2].frames = 30
  /\ wout[1].voice_frames + wout[2].voice_frames = 10

\* the frame period of the source is undefined (fewer than two frames) or 0
PeriodUndefinedOrZero ==
  LET p == estimate_frame_period_seconds(wg)
  IN  IsNaN(p) \/ p.num = 0

ZeroCoverage(r) ==
  /\ ~IsNaN(r.coverage_s) /\ r.coverage_s.num = 0
  /\ ~IsNaN(r.coverage_rate) /\ r.coverage_rate.num = 0
  /\ ~IsNaN(r.voice_seconds) /\ r.voice_seconds.num = 0
  /\ ~IsNaN(r.voice_rate_time) /\ r.voice_rate_time.num = 0

\* C28 as stated: when the frame period is undefined or zero (a single
\* frame, or all frames on one timestamp), per_kit_worker does not raise and
\* every row it returns, the rows of minutes that hold frames included, has
\* coverage_s = coverage_rate = voice_seconds = voice_rate_time = 0, while
\* frames is not zero in the minutes that hold frames.
C28_ZeroPeriodZeroCoverage ==
  (wpc \in {"done", "raised"} /\ PeriodUndefinedOrZero) =>
    /\ wpc = "done"
    /\ \A k \in 1..Len(wout) : ZeroCoverage(wout[k])
    /\ SumCol(wout, "frames") = Len(wg)

\* whenever per_kit_worker returns for such a source, its rows are as C28 says
ZeroPeriodRowsOnReturn ==
  (wpc = "done" /\ PeriodUndefinedOrZero) =>
    /\ \A k \in 1..Len(wout) : ZeroCoverage(wout[k])
    /\ SumCol(wout, "frames") = Len(wg)
    /\ \E k \in 1..Len(wout) : wout[k].frames > 0

\* C29: in every returned row voice_rate_time is in [0, 1]; in every row
\* with coverage_s > 0, voice_rate_time >= voice_rate, and the two are equal
\* whenever frames * period <= 60, the coverage clamp not being active.
C29_VoiceRateTime ==
  wpc = "done" =>
    \A k \in 1..Len(wout) :
      LET r == wout[k]
      IN  /\ ~IsNaN(r.voice_rate_time)
          /\ RLe(RZero, r.voice_rate_time)
          /\ RLe(r.voice_rate_time, Rat(1, 1))
          /\ (~IsNaN(r.coverage_s) /\ r.coverage_s.num > 0) =>
               /\ RLe(r.voice_rate, r.voice_rate_time)
               /\ RLe(RScale(r.frames, r.frame_period_s), Rat(60, 1))
                    => REq(r.voice_rate_time, r.voice_rate)

\* C29 witness: a row with voice frames whose coverage is clamped to 60 s and
\* whose voice_rate_time is above its voice_rate.
C29_Witness ==
  /\ wpc = "done"
  /\ \E k \in 1..Len(wout) :
       /\ REq(wout[k].coverage_s, Rat(60, 1))
       /\ ~RLe(wout[k].voice_rate_time, wout[k].voice_rate)
       /\ wout[k].voice_frames > 0

====
